---- MODULE Spec2Model ----
(***************************************************************************)
(* State-machine model of MasiSocketManager                                *)
(* (src/http_oled_sajib/main/control_modules/socket_manager.py).           *)
(*                                                                         *)
(* Python None is modelled as the empty sequence None for optional integer *)
(* and byte-string fields (a present value v is <<v>> or the byte sequence *)
(* itself) and as the string "None" for string-valued fields.              *)
(***************************************************************************)
EXTENDS Integers, Sequences, FiniteSets, TLC

(***************************************************************************)
(* Bounds of the model                                                     *)
(***************************************************************************)
\* element counts offered to setup_socket and declared by the peer: 0..MaxCount
MaxCount == 1
\* number of recv()/recvfrom() calls of the receiver thread that return data
MaxFrames == 2
\* number of sockets the session may create
MaxSocks == 3
\* largest num_extra_args offered to handshake
MaxExtraArgs == 1
\* longest list of named values given to _prepare_extra_args
MaxKwargs == 3
\* the threshold self.buffer_size of the record buffer, scaled down
buffer_size == 2
\* number of add_data_to_buffer calls in a run
MaxAdds == 5

(***************************************************************************)
(* Program constants                                                       *)
(***************************************************************************)
\* id_numbers: the key of "Mevea"
MEVEA == 1
\* datatype_encoding['int'], datatype_encoding['double']
INT_CODE == 0
DOUBLE_CODE == 1
\* struct.calcsize of '<b', '<d' and '<B'
INT_SIZE == 1
DOUBLE_SIZE == 8
CHECKSUM_SIZE == 1

None == <<>>
Some(v) == <<v>>
Val(o) == o[1]

\* __init__ defaults
int_format == "b"
double_format == "d"
checksum_format_size == CHECKSUM_SIZE

\* id_numbers.get(n, "Undefined")
id_numbers(n) ==
    CASE n = 0 -> "Excavator"
      [] n = MEVEA -> "Mevea"
      [] n = 2 -> "Motion Platform"
      [] n = 3 -> "Digicenter"
      [] OTHER -> "Undefined"

\* datatype_encoding.get(name, 1)
datatype_encoding(name) ==
    CASE name = "int" -> INT_CODE
      [] name = "double" -> DOUBLE_CODE
      [] OTHER -> 1

\* struct.calcsize(endian_specifier + fmt) for the two data formats
calcsize(fmt) == IF fmt = int_format THEN INT_SIZE ELSE DOUBLE_SIZE

(***************************************************************************)
(* Bytes, checksum and packing                                             *)
(***************************************************************************)
RECURSIVE ByteXor(_, _)
\* a ^ b on non-negative integers
ByteXor(a, b) ==
    IF a = 0 THEN b
    ELSE IF b = 0 THEN a
    ELSE (((a % 2) + (b % 2)) % 2) + 2 * ByteXor(a \div 2, b \div 2)

RECURSIVE XorFold(_, _)
XorFold(bytes, acc) ==
    IF bytes = <<>> THEN acc
    ELSE XorFold(Tail(bytes), ByteXor(acc, Head(bytes)))

\* mutant: the loop starts at the second byte
_compute_checksum_from_second(packed_data) ==
    IF packed_data = <<>> THEN 0 ELSE XorFold(Tail(packed_data), 0)

\* _compute_checksum: checksum = 0; for byte in packed_data: checksum ^= byte
_compute_checksum(packed_data) == XorFold(packed_data, 0)

\* _add_checksum: packed_data + struct.pack('<B', checksum)
_add_checksum(packed_data) == Append(packed_data, _compute_checksum(packed_data))

\* the doubles of the model and their little-endian IEEE-754 images
DoubleVals == {1, -2}
PackDouble(v) ==
    CASE v = 1 -> <<0, 0, 0, 0, 0, 0, 240, 63>>
      [] v = -2 -> <<0, 0, 0, 0, 0, 0, 0, 192>>

\* struct.unpack('<d', chunk)[0]; a bit pattern outside the table stands
\* for the double it encodes and is kept as that pattern
UnpackDouble(chunk) ==
    IF \E v \in DoubleVals : PackDouble(v) = chunk
    THEN [num |-> CHOOSE v \in DoubleVals : PackDouble(v) = chunk, bits |-> <<>>]
    ELSE [num |-> 0, bits |-> chunk]

\* the 1-byte signed integers of the model
IntVals == {1, -1}
\* struct.pack('<b', v): two's complement
PackInt(v) == <<(v + 256) % 256>>
\* mutant: the byte is read as unsigned ('<B')
UnpackIntUnsigned(chunk) == [num |-> chunk[1], bits |-> <<>>]

\* struct.unpack('<b', chunk)[0]
UnpackInt(chunk) ==
    [num |-> IF chunk[1] >= 128 THEN chunk[1] - 256 ELSE chunk[1], bits |-> <<>>]

PackOne(fmt, v) == IF fmt = int_format THEN PackInt(v) ELSE PackDouble(v)
UnpackOne(fmt, chunk) == IF fmt = int_format THEN UnpackInt(chunk) ELSE UnpackDouble(chunk)
ValsOf(fmt) == IF fmt = int_format THEN IntVals ELSE DoubleVals

RECURSIVE StructPack(_, _)
\* struct.pack(endian_specifier + fmt * len(data), *data)
StructPack(fmt, data) ==
    IF data = <<>> THEN <<>>
    ELSE PackOne(fmt, Head(data)) \o StructPack(fmt, Tail(data))

\* [struct.unpack(fmt, full_data[i:i+size])[0] for i in range(0, expected_length, size)]
DecodeChunks(fmt, size, full_data, expected_length) ==
    [k \in 1..(expected_length \div size) |->
        UnpackOne(fmt, SubSeq(full_data, (k - 1) * size + 1, k * size))]

\* the value a decoded element stands for, as the model's numbers
NumsOf(vals) == [k \in 1..Len(vals) |-> [num |-> vals[k], bits |-> <<>>]]

(***************************************************************************)
(* Environment of the session                                              *)
(***************************************************************************)
\* identification numbers used by the two ends: a plain device and Mevea
IdNumbers == {0, MEVEA}
Counts == 0..MaxCount
\* addresses handed to setup_socket, and the peers' source addresses
SetupAddrs == {"addr1", "addr2"}
\* the address accept() reports, and the sources of datagrams
AcceptPeers == {"peer1"}
PeerAddrs == {"peer1", "peer2"}
\* values of the auxiliary handshake integers
ExtraArgVals == {50}
\* local_datatype arguments offered to handshake
LocalDatatypes == {"int", "double", "float"}
\* keyword arguments offered to handshake, as the list of their values
KwargsOffered == {<<>>, <<69>>}
\* consumer threads polling get_latest_received
Consumers == {"c1", "c2"}
\* threads calling add_data_to_buffer
Producers == {"p1", "p2"}
SockIds == 1..MaxSocks

VARIABLES
    \* fields of MasiSocketManager
    socket_type, network_protocol,
    local_id_number, local_num_inputs, local_num_outputs,
    local_socket, connected_socket, local_addr, connected_addr,
    local_output_datatype, local_datatype_size,
    recvd_id_number, recvd_num_inputs, recvd_num_outputs,
    connected_output_datatype, connected_datatype_size,
    send_bytes, recv_bytes,
    data_recv_running, data_reception_thread,
    latest_recvd, latest_data_lock, data_buffer,
    \* the operating system's sockets: kind, whether still open, and the
    \* address given to bind() or connect()
    sock_kind, sock_open, sock_addr,
    \* what the caller and the peer observe
    \* hs_call is the role and the local counts the latest handshake call found
    setup_ret, hs_ret, hs_read, hs_sent, hs_ok, hs_call, last_sent,
    \* the caller thread, the receiver thread and the consumer threads;
    \* get_ret is what the latest completed get_latest_received returned, to
    \* whom, and the arrival number of the frame it examined
    caller_pc, rx_pc, rx_data, nrecv,
    get_pc, get_full, get_ret, delivered, arrived_since,
    \* the source address of the datagram recvfrom() returned last
    rx_src,
    \* the latest direct call of _prepare_extra_args: arguments and result
    prep_call,
    \* the record buffer's lock (who holds it), the saver thread and its
    \* locals, the log file, the threads inside add_data_to_buffer, the number
    \* of entries appended so far, and what stop_saving_thread found
    saving_thread, saving_running, data_buffer_lock, sv_pc, packed_data_list,
    log_file, pr_pc, n_added, stop_snap,
    \* has the holder of the buffer lock changed the queue since taking it
    lock_dirty,
    \* a client instance and a server instance of the manager connected to
    \* each other: the fields of each that handshake reads and writes, with the
    \* integers it has sent and received so far, and for each the integers on
    \* the stream towards it that it has not yet read
    inst, stream

fieldVars == <<socket_type, network_protocol, local_id_number, local_num_inputs,
               local_num_outputs, local_socket, connected_socket, local_addr,
               connected_addr>>
negVars == <<local_output_datatype, local_datatype_size, recvd_id_number,
             recvd_num_inputs, recvd_num_outputs, connected_output_datatype,
             connected_datatype_size, send_bytes, recv_bytes>>
threadVars == <<data_recv_running, data_reception_thread, rx_pc, rx_data, nrecv>>
slotVars == <<latest_recvd, latest_data_lock, arrived_since>>
sockVars == <<sock_kind, sock_open, sock_addr>>
bufVars == <<data_buffer>>
saverVars == <<saving_thread, saving_running, data_buffer_lock, sv_pc,
               packed_data_list, log_file, pr_pc, n_added, stop_snap, lock_dirty>>
argVars == <<prep_call>>
srcVars == <<rx_src>>
pairVars == <<inst, stream>>
recVars == <<bufVars, saverVars, argVars, srcVars, pairVars>>
hsVars == <<hs_ret, hs_read, hs_sent, hs_ok, hs_call>>
sendVars == <<last_sent>>
getVars == <<get_pc, get_full, get_ret, delivered>>
vars == <<fieldVars, negVars, threadVars, slotVars, recVars, sockVars, hsVars,
          sendVars, getVars, setup_ret, caller_pc>>

NotCalled == [tag |-> "NotCalled", dt |-> "None", args |-> None]

\* the two ends of a connection between two instances
Roles == {"client", "server"}

\* an instance after setup_socket(addr, port, identification_number, inputs, outputs,
\* socket_type) that is about to run handshake(local_datatype,
\* num_extra_args, **kwargs); pc is the line it is at
Instance(pc, identification_number, inputs, outputs, local_datatype_code, num_extra_args, kwargs) ==
    [pc |-> pc,
     local_id_number |-> identification_number,
     local_num_inputs |-> inputs,
     local_num_outputs |-> outputs,
     local_datatype_code |-> local_datatype_code,
     num_extra_args |-> num_extra_args,
     kwargs |-> kwargs,
     local_output_datatype |-> "None",
     connected_output_datatype |-> "None",
     recvd_id_number |-> None,
     recvd_num_inputs |-> None,
     recvd_num_outputs |-> None,
     recvd_extra_args |-> <<>>,
     send_bytes |-> None,
     recv_bytes |-> None,
     ret |-> "NotReturned",
     sent |-> <<>>,
     got |-> <<>>]

NoInstance == Instance("none", 0, 0, 0, 1, 0, <<>>)

\* the state after MasiSocketManager.__init__
Init ==
    /\ socket_type = "None" /\ network_protocol = "None"
    /\ local_id_number = None /\ local_num_inputs = None /\ local_num_outputs = None
    /\ local_socket = None /\ connected_socket = None
    /\ local_addr = "None" /\ connected_addr = "None"
    /\ local_output_datatype = "None" /\ local_datatype_size = None
    /\ recvd_id_number = None /\ recvd_num_inputs = None /\ recvd_num_outputs = None
    /\ connected_output_datatype = "None" /\ connected_datatype_size = None
    /\ send_bytes = None /\ recv_bytes = None
    /\ data_recv_running = None /\ data_reception_thread = "None"
    /\ latest_recvd = None /\ latest_data_lock = "free"
    /\ data_buffer = <<>>
    /\ sock_kind = [s \in SockIds |-> "unused"] /\ sock_open = {}
    /\ sock_addr = [s \in SockIds |-> "None"]
    /\ setup_ret = "NotCalled" /\ hs_ret = NotCalled
    /\ hs_read = <<>> /\ hs_sent = <<>> /\ hs_ok = FALSE
    /\ hs_call = [role |-> "None", outputs |-> None, inputs |-> None]
    /\ last_sent = None
    /\ caller_pc = "idle" /\ rx_pc = "none" /\ rx_data = None /\ nrecv = 0
    /\ get_pc = [c \in Consumers |-> "idle"]
    /\ get_full = [c \in Consumers |-> None]
    /\ get_ret = [by |-> "None", seq |-> 0, vals |-> None]
    /\ delivered = <<>> /\ arrived_since = 0
    /\ rx_src = "None"
    /\ prep_call = None
    /\ saving_thread = "None" /\ saving_running = None
    /\ data_buffer_lock = "free" /\ sv_pc = "none"
    /\ packed_data_list = <<>> /\ log_file = <<>>
    /\ pr_pc = [p \in Producers |-> "idle"]
    /\ n_added = 0 /\ stop_snap = None /\ lock_dirty = FALSE
    /\ inst = [r \in Roles |-> NoInstance]
    /\ stream = [r \in Roles |-> <<>>]

\* socket.socket(...): the lowest unused descriptor
FreeSocks == {s \in SockIds : sock_kind[s] = "unused"}
NewSock == CHOOSE s \in FreeSocks : \A t \in FreeSocks : s <= t
IsOpen(o) == o # None /\ Val(o) \in sock_open
IsOpenKind(o, kind) == IsOpen(o) /\ sock_kind[Val(o)] = kind

NewSock2 == CHOOSE s \in FreeSocks \ {NewSock} : \A t \in FreeSocks \ {NewSock} : s <= t

(***************************************************************************)
(* setup_socket                                                            *)
(***************************************************************************)
\* __setup_socket_client: socket(), connect(); "socket already made!" otherwise
setup_socket_client(addr) ==
    IF local_socket = None
    THEN /\ FreeSocks # {}
         /\ sock_kind' = [sock_kind EXCEPT ![NewSock] = "tcp"]
         /\ sock_open' = sock_open \cup {NewSock}
         /\ sock_addr' = [sock_addr EXCEPT ![NewSock] = addr]
         /\ local_socket' = Some(NewSock)
         /\ socket_type' = "client"
         /\ connected_addr' = addr
         /\ connected_socket' = Some(NewSock)
         /\ network_protocol' = "tcp"
         /\ UNCHANGED local_addr
    ELSE UNCHANGED <<sockVars, local_socket, socket_type, connected_addr,
                     connected_socket, network_protocol, local_addr>>

\* __setup_socket_server: socket(), bind(), listen(1), accept()
setup_socket_server(addr) ==
    IF local_socket = None
    THEN /\ Cardinality(FreeSocks) >= 2
         /\ sock_kind' = [sock_kind EXCEPT ![NewSock] = "listen", ![NewSock2] = "tcp"]
         /\ sock_open' = sock_open \cup {NewSock, NewSock2}
         /\ sock_addr' = [sock_addr EXCEPT ![NewSock] = addr]
         /\ local_socket' = Some(NewSock)
         /\ connected_socket' = Some(NewSock2)
         /\ \E peer \in AcceptPeers : connected_addr' = peer
         /\ socket_type' = "server"
         /\ local_addr' = addr
         /\ network_protocol' = "tcp"
    ELSE UNCHANGED <<sockVars, local_socket, socket_type, connected_addr,
                     connected_socket, network_protocol, local_addr>>

setup_socket(addr, identification_number, inputs, outputs, stype) ==
    /\ caller_pc = "idle"
    /\ local_id_number' = Some(identification_number)
    /\ local_num_inputs' = Some(inputs)
    /\ local_num_outputs' = Some(outputs)
    /\ IF stype = "client"
       THEN setup_socket_client(addr) /\ setup_ret' = "True"
       ELSE IF stype = "server"
       THEN setup_socket_server(addr) /\ setup_ret' = "True"
       ELSE /\ setup_ret' = "False"
            /\ UNCHANGED <<sockVars, local_socket, socket_type, connected_addr,
                           connected_socket, network_protocol, local_addr>>
    /\ UNCHANGED <<negVars, threadVars, slotVars, recVars, hsVars, sendVars, getVars, caller_pc>>

SocketTypes == {"client", "server", "peer"}

\* identification numbers the caller configures
LocalIds == {0}

\* setup_socket with its arguments drawn from the given sets
SetupSocket(addrs, ids, ins, outs, stypes) ==
    \E addr \in addrs, idn \in ids, inputs \in ins, outputs \in outs, stype \in stypes :
        setup_socket(addr, idn, inputs, outputs, stype)

(***************************************************************************)
(* handshake                                                               *)
(***************************************************************************)
\* mutant: nothing is filled in
ZeroFillNone(count) == <<>>

\* line 416: [0] * count, the empty list when count is not positive
ZeroFill(count) == [i \in 1..count |-> 0]

\* _prepare_extra_args, lines 415-417: the slice list(kwargs.values())[:n],
\* extended by n - len(slice) zeros
_prepare_extra_args(kwargs, num_extra_args) ==
    LET extra_args_to_send ==
            SubSeq(kwargs, 1, IF num_extra_args < Len(kwargs) THEN num_extra_args
                              ELSE Len(kwargs))
    IN extra_args_to_send \o ZeroFill(num_extra_args - Len(extra_args_to_send))

\* a call of the static method on its own
PrepareExtraArgs(kwargs, num_extra_args) ==
    /\ prep_call' = Some([kwargs |-> kwargs, num_extra_args |-> num_extra_args,
                          ret |-> _prepare_extra_args(kwargs, num_extra_args)])
    /\ UNCHANGED <<fieldVars, negVars, threadVars, slotVars, bufVars, saverVars,
                   srcVars, pairVars, sockVars, hsVars, sendVars, getVars, setup_ret, caller_pc>>

\* lines 131-134: the local format chosen from the datatype code
LocalFormat(code) == IF code = INT_CODE THEN int_format ELSE double_format
\* mutant: the peer is taken to send doubles whatever code it announced
ConnectedFormatDouble(code) == double_format

\* lines 164-167 and 204-207: the peer's format from its datatype code
ConnectedFormat(code) == IF code = INT_CODE THEN int_format ELSE double_format

\* mutant: the caller's requested format is kept with Mevea
MeveaFormatRequested(code) == LocalFormat(code)

\* lines 156-157 and 198-199: the format forced in both directions with Mevea
MeveaFormat(code) == double_format

\* mutant: only the inputs are compared
CountsMatchInputsOnly(peer_inputs, peer_outputs) ==
    peer_inputs = Val(local_num_outputs)

\* lines 147-150 (server role): do the peer's counts mirror the local ones
CountsMatch(peer_inputs, peer_outputs) ==
    /\ peer_inputs = Val(local_num_outputs)
    /\ peer_outputs = Val(local_num_inputs)

\* mutant: the checksum byte is left out of the frame size
FrameBytesNoChecksum(fmt, count) == calcsize(fmt) * count

\* lines 215-223: sizes of the elements and of the frames
FrameBytes(fmt, count) == calcsize(fmt) * count + checksum_format_size

\* lines 215-228: the tail of a handshake that did not return early
HsComplete(lod, cod, rid, rin, rout, extra) ==
    /\ local_output_datatype' = lod
    /\ connected_output_datatype' = cod
    /\ recvd_id_number' = Some(rid)
    /\ recvd_num_inputs' = Some(rin)
    /\ recvd_num_outputs' = Some(rout)
    /\ local_datatype_size' = Some(calcsize(lod))
    /\ connected_datatype_size' = Some(calcsize(cod))
    /\ send_bytes' = Some(FrameBytes(lod, Val(local_num_outputs)))
    /\ recv_bytes' = Some(FrameBytes(cod, rout))
    /\ hs_ret' = [tag |-> "Ok", dt |-> cod, args |-> extra]
    /\ hs_ok' = TRUE

\* what the peer puts on the stream: identity and counts, then (a peer that
\* negotiates) its datatype code and num_extra_args auxiliary integers
PeerTriples == [id : IdNumbers, outputs : Counts, inputs : Counts]
PeerArgs(n) == [1..n -> ExtraArgVals]

\* server role, lines 139-178
HsServer(code, num_extra_args, kwargs, peers) ==
    /\ socket_type = "server"
    /\ IsOpenKind(connected_socket, "tcp")
    /\ \E peer \in peers :
        IF ~CountsMatch(peer.inputs, peer.outputs)
        THEN /\ local_output_datatype' = LocalFormat(code)
             /\ recvd_id_number' = Some(peer.id)
             /\ recvd_num_outputs' = Some(peer.outputs)
             /\ recvd_num_inputs' = Some(peer.inputs)
             /\ hs_read' = <<peer.id, peer.outputs, peer.inputs>>
             /\ hs_sent' = <<>>
             /\ hs_ret' = [tag |-> "False", dt |-> "None", args |-> None]
             /\ UNCHANGED <<local_datatype_size, connected_output_datatype,
                            connected_datatype_size, send_bytes, recv_bytes, hs_ok>>
        ELSE IF id_numbers(peer.id) = "Mevea"
        THEN /\ hs_read' = <<peer.id, peer.outputs, peer.inputs>>
             /\ hs_sent' = <<Val(local_id_number), Val(local_num_inputs),
                             Val(local_num_outputs)>>
             /\ HsComplete(MeveaFormat(code), MeveaFormat(code), peer.id, peer.inputs,
                           peer.outputs, None)
        ELSE \E pcode \in {INT_CODE, DOUBLE_CODE}, pargs \in PeerArgs(num_extra_args) :
             /\ hs_read' = <<peer.id, peer.outputs, peer.inputs, pcode>> \o pargs
             /\ hs_sent' = <<Val(local_id_number), Val(local_num_inputs),
                             Val(local_num_outputs), code>>
                           \o _prepare_extra_args(kwargs, num_extra_args)
             /\ HsComplete(LocalFormat(code), ConnectedFormat(pcode), peer.id,
                           peer.inputs, peer.outputs, Some(pargs))

\* client role, lines 181-209
HsClient(code, num_extra_args, kwargs, peers) ==
    /\ socket_type = "client"
    /\ IsOpenKind(local_socket, "tcp")
    /\ hs_sent' = <<Val(local_id_number), Val(local_num_outputs),
                    Val(local_num_inputs), code>>
                  \o _prepare_extra_args(kwargs, num_extra_args)
    /\ \E peer \in peers :
        IF id_numbers(peer.id) = "Mevea"
        THEN /\ hs_read' = <<peer.id, peer.inputs, peer.outputs>>
             /\ HsComplete(MeveaFormat(code), MeveaFormat(code), peer.id, peer.inputs,
                           peer.outputs, None)
        ELSE \E pcode \in {INT_CODE, DOUBLE_CODE}, pargs \in PeerArgs(num_extra_args) :
             /\ hs_read' = <<peer.id, peer.inputs, peer.outputs, pcode>> \o pargs
             /\ HsComplete(LocalFormat(code), ConnectedFormat(pcode), peer.id,
                           peer.inputs, peer.outputs, Some(pargs))

\* lines 211-213: neither role was set up
HsNoRole(code) ==
    /\ socket_type = "None"
    /\ local_output_datatype' = LocalFormat(code)
    /\ hs_ret' = [tag |-> "None", dt |-> "None", args |-> None]
    /\ UNCHANGED <<local_datatype_size, recvd_id_number, recvd_num_inputs,
                   recvd_num_outputs, connected_output_datatype,
                   connected_datatype_size, send_bytes, recv_bytes,
                   hs_read, hs_sent, hs_ok>>

\* the first socket call raises: the stream socket is closed or is no stream
HsRaise(code) ==
    /\ \/ socket_type = "server" /\ ~IsOpenKind(connected_socket, "tcp")
       \/ socket_type = "client" /\ ~IsOpenKind(local_socket, "tcp")
    /\ local_output_datatype' = LocalFormat(code)
    /\ hs_ret' = [tag |-> "Raised", dt |-> "None", args |-> None]
    /\ hs_read' = <<>>
    /\ hs_sent' = <<>>
    /\ UNCHANGED <<local_datatype_size, recvd_id_number, recvd_num_inputs,
                   recvd_num_outputs, connected_output_datatype,
                   connected_datatype_size, send_bytes, recv_bytes, hs_ok>>

\* handshake(local_datatype, num_extra_args, **kwargs) against a peer whose
\* identity and counts are one of `peers`
handshake(local_datatype, num_extra_args, kwargs, peers) ==
    /\ caller_pc = "idle"
    /\ hs_call' = [role |-> socket_type, outputs |-> local_num_outputs,
                   inputs |-> local_num_inputs]
    /\ LET code == datatype_encoding(local_datatype) IN
        \/ HsServer(code, num_extra_args, kwargs, peers)
        \/ HsClient(code, num_extra_args, kwargs, peers)
        \/ HsNoRole(code)
        \/ HsRaise(code)
    /\ UNCHANGED <<fieldVars, threadVars, slotVars, recVars, sockVars, sendVars, getVars,
                   setup_ret, caller_pc>>

\* the caller runs the one-pass negotiation: it does not call handshake again
\* on a session whose handshake has succeeded
Handshake(datatypes, max_extra, kwargs_offered, peers) ==
    /\ ~hs_ok
    /\ \E dt \in datatypes, n \in 0..max_extra, kw \in kwargs_offered :
        handshake(dt, n, kw, peers)

(***************************************************************************)
(* tcp_to_udp, close_socket, send_data                                     *)
(***************************************************************************)
ClosedBy(o) == IF o = None THEN {} ELSE {Val(o)}

\* mutant: the address of the other end is taken in server role too
tcp_addr_connected == connected_addr

\* line 233: the address kept across the switch
tcp_addr == IF socket_type = "client" THEN connected_addr ELSE local_addr

\* mutant: only the listening socket is closed
SwitchClosesLocalOnly == ClosedBy(local_socket)

\* lines 236-243: the sockets closed before the datagram socket is made
SwitchCloses == ClosedBy(connected_socket) \cup ClosedBy(local_socket)

\* mutant: the transport flag is left as it was
SwitchedProtocolKept == network_protocol

\* line 257
SwitchedProtocol == "udp"

\* tcp_to_udp: close the stream socket(s), open a datagram socket; the
\* server binds it to the address setup used, the client keeps the peer's
tcp_to_udp ==
    /\ caller_pc = "idle"
    /\ FreeSocks # {}
    /\ sock_open' = (sock_open \ SwitchCloses) \cup {NewSock}
    /\ sock_kind' = [sock_kind EXCEPT ![NewSock] = "udp"]
    /\ sock_addr' = IF socket_type = "server"
                    THEN [sock_addr EXCEPT ![NewSock] = tcp_addr]
                    ELSE sock_addr
    /\ local_socket' = Some(NewSock)
    /\ connected_addr' = IF socket_type = "client" THEN tcp_addr ELSE connected_addr
    /\ network_protocol' = SwitchedProtocol
    /\ UNCHANGED <<socket_type, local_id_number, local_num_inputs, local_num_outputs,
                   connected_socket, local_addr>>
    /\ UNCHANGED <<negVars, threadVars, slotVars, recVars, hsVars, sendVars, getVars,
                   setup_ret, caller_pc>>

\* close_socket: closes local_socket when there is one. The caller is at
\* the position at and goes on at the position to.
CloseSocketAt(at, to) ==
    /\ caller_pc = at
    /\ sock_open' = sock_open \ ClosedBy(local_socket)
    /\ caller_pc' = to
    /\ UNCHANGED <<sock_kind, sock_addr, fieldVars, negVars, threadVars, slotVars, recVars, hsVars,
                   sendVars, getVars, setup_ret>>

close_socket == CloseSocketAt("idle", "idle")

\* lines 308-311: does the socket call of send_data put the frame on the wire
SendTransmits ==
    IF network_protocol = "tcp"
    THEN IsOpenKind(connected_socket, "tcp")
    ELSE IsOpenKind(local_socket, "udp") /\ connected_addr # "None"

\* lines 308-311: where the frame goes: down the stream, or to connected_addr
SendDestination == IF network_protocol = "tcp" THEN "stream" ELSE connected_addr

\* send_data(data): pack with local_output_datatype, append the checksum, send.
\* With local_output_datatype None the pack raises; a socket call on a missing
\* or closed socket raises. Nothing is transmitted then.
send_data(data) ==
    /\ caller_pc = "idle"
    /\ IF local_output_datatype # "None" /\ SendTransmits
       THEN last_sent' = Some([data |-> data,
                               final_data |-> _add_checksum(
                                   StructPack(local_output_datatype, data)),
                               to |-> SendDestination])
       ELSE UNCHANGED last_sent
    /\ UNCHANGED <<fieldVars, negVars, threadVars, slotVars, recVars, sockVars, hsVars,
                   getVars, setup_ret, caller_pc>>

\* arrays offered to send_data: every length up to one more than MaxCount
SendVals == {1, -2}
SendArrays == UNION {[1..n -> SendVals] : n \in 0..(MaxCount + 1)}

SendData == \E data \in SendArrays : send_data(data)

(***************************************************************************)
(* Receiver thread                                                         *)
(***************************************************************************)
IsAlive == rx_pc \notin {"none", "done"}

\* start_data_recv_thread
start_data_recv_thread ==
    /\ caller_pc = "idle"
    /\ IF data_reception_thread = "None" \/ ~IsAlive
       THEN /\ data_recv_running' = Some(TRUE)
            /\ data_reception_thread' = "thread"
            /\ rx_pc' = "loop"
            /\ rx_data' = None
       ELSE UNCHANGED <<data_recv_running, data_reception_thread, rx_pc, rx_data>>
    /\ UNCHANGED <<nrecv, fieldVars, negVars, slotVars, recVars, sockVars, hsVars, sendVars,
                   getVars, setup_ret, caller_pc>>

\* stop_data_recv_thread, lines 270-271, up to the join: the caller goes
\* to the position joining when there is a thread, and otherwise returns
\* None to the position returned_none
StopRecvSetAt(at, joining, returned_none) ==
    /\ caller_pc = at
    /\ data_recv_running' = Some(FALSE)
    /\ caller_pc' = IF data_reception_thread # "None" THEN joining ELSE returned_none
    /\ UNCHANGED <<data_reception_thread, rx_pc, rx_data, nrecv, fieldVars, negVars,
                   slotVars, recVars, sockVars, hsVars, sendVars, getVars, setup_ret>>

\* stop_data_recv_thread, lines 272-274: join() returns once the thread
\* has exited, and the call returns True to the position returned_true
StopRecvJoinAt(at, returned_true) ==
    /\ caller_pc = at
    /\ rx_pc = "done"
    /\ data_reception_thread' = "None"
    /\ caller_pc' = returned_true
    /\ UNCHANGED <<data_recv_running, rx_pc, rx_data, nrecv, fieldVars, negVars,
                   slotVars, recVars, sockVars, hsVars, sendVars, getVars, setup_ret>>

stop_data_recv_thread == StopRecvSetAt("idle", "joining", "idle")

stop_data_recv_join == StopRecvJoinAt("joining", "idle")

\* mutant: the flag is not looked at
LoopGoesOnAlways == TRUE

\* line 501: the truth value of self.data_recv_running (None at first)
LoopGoesOn == data_recv_running = Some(TRUE)

\* __continuous_data_receiver, line 501: while self.data_recv_running
RxLoop ==
    /\ rx_pc = "loop"
    /\ rx_pc' = IF LoopGoesOn THEN "recv" ELSE "done"
    /\ UNCHANGED <<data_recv_running, data_reception_thread, rx_data, nrecv,
                   fieldVars, negVars, slotVars, recVars, sockVars, hsVars, sendVars, getVars,
                   setup_ret, caller_pc>>

\* frames the peer builds: count values in its format, with the checksum
PeerFrames(fmt, count) ==
    {_add_checksum(StructPack(fmt, v)) : v \in [1..count -> ValsOf(fmt)]}

\* bit masks of the single-bit errors the link introduces, and where
CorruptBits == {1}
FlipAt(frame, pos, bit) == [frame EXCEPT ![pos] = ByteXor(frame[pos], bit)]
CorruptFrames(fmt, count) ==
    {FlipAt(f, pos, bit) : f \in PeerFrames(fmt, count),
                           pos \in {1, (calcsize(fmt) * count) + 1}, bit \in CorruptBits}

\* what one recv(n)/recvfrom(n) can hand back: a whole frame, sound or
\* damaged, or fewer than n bytes (none at all when the peer has closed)
FullData(fmt, count) == PeerFrames(fmt, count) \cup CorruptFrames(fmt, count)
ShortData(fmt, count) ==
    {SubSeq(f, 1, k) : f \in PeerFrames(fmt, count), k \in 0..(calcsize(fmt) * count)}

\* lines 512-515: can the socket call of __receive_data return at all
RecvSocketOk ==
    /\ recv_bytes # None
    /\ IF network_protocol = "tcp"
       THEN IsOpenKind(connected_socket, "tcp")
       ELSE IsOpenKind(local_socket, "udp")

\* mutant: only the emptiness of the bytes is tested
ReceiveAcceptsNonEmpty(full_data) == full_data # <<>>

\* line 519: if not full_data or len(full_data) != self.recv_bytes: return None
ReceiveAccepts(full_data) == full_data # <<>> /\ Len(full_data) = Val(recv_bytes)

\* mutant: the peer address is never refreshed
AddrAfterRecvKept(src) == connected_addr

\* lines 516-517: a datagram's source becomes the peer address, server only
AddrAfterRecv(src) ==
    IF network_protocol # "tcp" /\ socket_type = "server" THEN src ELSE connected_addr

\* everything the link can hand to one receive of this session
LinkData ==
    FullData(connected_output_datatype, Val(recvd_num_outputs))
        \cup ShortData(connected_output_datatype, Val(recvd_num_outputs))

\* mutant: an exception of the socket call ends the thread
AfterReceiveErrorEnds == "done"

\* lines 524-526 and 504: the exception is caught, __receive_data returns
\* None, `if data` fails and the loop goes round
AfterReceiveError == "loop"

\* __receive_data(): the socket call raises (caught, None), or returns bytes
\* drawn from `offered`, sent from one of `sources`; bytes of another length than recv_bytes make it
\* return None ("short"), a full-size frame is returned to the loop ("store")
RxReceiveFrom(max_frames, offered, sources) ==
    /\ rx_pc = "recv"
    /\ \/ /\ ~RecvSocketOk
          /\ rx_pc' = AfterReceiveError
          /\ UNCHANGED <<rx_data, nrecv, connected_addr, rx_src>>
       \/ /\ RecvSocketOk
          /\ nrecv < max_frames
          /\ \E src \in sources, full_data \in offered :
              /\ connected_addr' = AddrAfterRecv(src)
              /\ rx_src' = IF network_protocol = "tcp" THEN rx_src ELSE src
              /\ IF ReceiveAccepts(full_data)
                 THEN /\ rx_data' = Some([seq |-> nrecv + 1, data |-> full_data])
                      /\ nrecv' = nrecv + 1
                      /\ rx_pc' = "store"
                 ELSE /\ rx_pc' = "short"
                      /\ UNCHANGED <<rx_data, nrecv>>
    /\ UNCHANGED <<socket_type, network_protocol, local_id_number, local_num_inputs,
                   local_num_outputs, local_socket, connected_socket, local_addr>>
    /\ UNCHANGED <<data_recv_running, data_reception_thread, negVars, slotVars, bufVars,
                   saverVars, argVars, pairVars, sockVars, hsVars, sendVars, getVars, setup_ret,
                   caller_pc>>

RxReceive(max_frames) == RxReceiveFrom(max_frames, LinkData, PeerAddrs)

\* line 504: `if data` fails on the None that __receive_data returned
RxDiscard ==
    /\ rx_pc = "short"
    /\ rx_pc' = "loop"
    /\ UNCHANGED <<data_recv_running, data_reception_thread, rx_data, nrecv,
                   fieldVars, negVars, slotVars, recVars, sockVars, hsVars, sendVars,
                   getVars, setup_ret, caller_pc>>

\* mutant: the receiver stores without taking the lock
RxLockFreeAlways == TRUE

\* `with self.latest_data_lock` of the receiver
RxLockFree == latest_data_lock = "free"

\* lines 505-506: with self.latest_data_lock: self.latest_recvd = data
RxStore ==
    /\ rx_pc = "store"
    /\ RxLockFree
    /\ latest_recvd' = rx_data
    /\ arrived_since' = arrived_since + 1
    /\ rx_data' = None
    /\ rx_pc' = "loop"
    /\ UNCHANGED <<latest_data_lock, data_recv_running, data_reception_thread, nrecv,
                   recVars, fieldVars, negVars, sockVars, hsVars, sendVars, getVars,
                   setup_ret, caller_pc>>

(***************************************************************************)
(* get_latest_received, one call per consumer thread at a time             *)
(***************************************************************************)
\* mutant: get_latest_received runs without taking the lock
GetLockFreeAlways == TRUE

\* `with self.latest_data_lock` of get_latest_received
GetLockFree == latest_data_lock = "free"

\* line 318: acquire the lock
GetAcquire(c) ==
    /\ get_pc[c] = "idle"
    /\ GetLockFree
    /\ latest_data_lock' = c
    /\ get_pc' = [get_pc EXCEPT ![c] = "locked"]
    /\ UNCHANGED <<latest_recvd, arrived_since, get_full, get_ret, delivered,
                   recVars, fieldVars, negVars, threadVars, sockVars, hsVars, sendVars,
                   setup_ret, caller_pc>>

\* lines 319-323: the no-data-yet case, else full_data = self.latest_recvd
GetRead(c) ==
    /\ get_pc[c] = "locked"
    /\ IF latest_recvd = None
       THEN /\ get_ret' = [by |-> c, seq |-> 0, vals |-> None]
            /\ get_pc' = [get_pc EXCEPT ![c] = "idle"]
            /\ latest_data_lock' = "free"
            /\ UNCHANGED get_full
       ELSE /\ get_full' = [get_full EXCEPT ![c] = latest_recvd]
            /\ get_pc' = [get_pc EXCEPT ![c] = "decode"]
            /\ UNCHANGED <<get_ret, latest_data_lock>>
    /\ UNCHANGED <<latest_recvd, arrived_since, delivered, recVars, fieldVars, negVars,
                   threadVars, sockVars, hsVars, sendVars, setup_ret, caller_pc>>

\* mutant: the checksum comparison is skipped
ChecksumOkAlways(full_data) == TRUE

\* lines 325-329: the trailing byte against the XOR of the bytes before it
ChecksumOk(full_data) ==
    full_data[Len(full_data)]
        = _compute_checksum(SubSeq(full_data, 1, Len(full_data) - checksum_format_size))

\* lines 334-335: the payload is a whole number of elements
LengthOk(full_data) ==
    (Len(full_data) - checksum_format_size) % Val(connected_datatype_size) = 0

\* lines 339-341
Decoded(full_data) ==
    DecodeChunks(connected_output_datatype, Val(connected_datatype_size), full_data,
                 Len(full_data) - checksum_format_size)

\* lines 325-348: does the call reach `return decoded_values`
GetAccepts(full_data) ==
    /\ connected_datatype_size # None
    /\ ChecksumOk(full_data)
    /\ LengthOk(full_data)

\* mutant: the slot keeps the frame after it has been returned
ClearedSlotKept == latest_recvd

\* line 344: self.latest_recvd = None  # Reset after processing
ClearedSlot == None

\* lines 325-348: validate, decode, clear the slot and return; every other
\* way out returns None and leaves the slot as it is
GetDecode(c) ==
    /\ get_pc[c] = "decode"
    /\ LET full_data == Val(get_full[c]).data IN
        IF GetAccepts(full_data)
        THEN /\ latest_recvd' = ClearedSlot
             /\ arrived_since' = 0
             /\ get_ret' = [by |-> c, seq |-> Val(get_full[c]).seq,
                             vals |-> Some(Decoded(full_data))]
             /\ delivered' = Append(delivered, Val(get_full[c]).seq)
        ELSE /\ get_ret' = [by |-> c, seq |-> Val(get_full[c]).seq, vals |-> None]
             /\ UNCHANGED <<latest_recvd, arrived_since, delivered>>
    /\ get_full' = [get_full EXCEPT ![c] = None]
    /\ get_pc' = [get_pc EXCEPT ![c] = "idle"]
    /\ latest_data_lock' = "free"
    /\ UNCHANGED <<recVars, fieldVars, negVars, threadVars, sockVars, hsVars, sendVars,
                   setup_ret, caller_pc>>

get_latest_received(c) == GetAcquire(c) \/ GetRead(c) \/ GetDecode(c)

GetLatestReceivedBy(consumers) == \E c \in consumers : get_latest_received(c)

GetLatestReceived == \E c \in Consumers : get_latest_received(c)

(***************************************************************************)
(* Session bring-up as the caller drives it: set-up (possibly repeated),   *)
(* negotiation, transport switch and close                                 *)
(***************************************************************************)
Next ==
    \/ SetupSocket({"addr1"}, LocalIds, Counts, Counts, SocketTypes)
    \/ Handshake(LocalDatatypes, MaxExtraArgs, KwargsOffered, PeerTriples)
    \/ tcp_to_udp
    \/ close_socket

Spec == Init /\ [][Next]_vars

(***************************************************************************)
(* The outbound path: a session set up once that receives nothing, over    *)
(* either transport, open or closed, and the caller's send_data            *)
(***************************************************************************)
SetupOnceOut ==
    /\ setup_ret = "NotCalled"
    /\ SetupSocket(SetupAddrs, LocalIds, {0}, Counts, SocketTypes)

SendPeers == {p \in PeerTriples : p.outputs = 0}

SendNext ==
    \/ SetupOnceOut
    \/ Handshake(LocalDatatypes, 0, {<<>>}, SendPeers)
    \/ tcp_to_udp
    \/ close_socket
    \/ SendData

SpecSend == Init /\ [][SendNext]_vars

(***************************************************************************)
(* The inbound path: a server or client session set up once that sends     *)
(* nothing, its receiver thread fed by the peer that connected, and the    *)
(* polling consumer threads                                                *)
(***************************************************************************)
SetupOnceIn ==
    /\ setup_ret = "NotCalled"
    /\ SetupSocket({"addr1"}, LocalIds, Counts, {0}, {"server", "client"})

DataPeers == {p \in PeerTriples : p.inputs = 0 /\ p.id = 0}

\* the caller switches the transport once
SwitchOnce == network_protocol = "tcp" /\ tcp_to_udp

DataNext ==
    \/ SetupOnceIn
    \/ Handshake({"double"}, 0, {<<>>}, DataPeers)
    \/ SwitchOnce
    \/ start_data_recv_thread
    \/ stop_data_recv_thread
    \/ stop_data_recv_join
    \/ RxLoop
    \/ RxReceiveFrom(MaxFrames, LinkData, AcceptPeers)
    \/ RxDiscard
    \/ RxStore
    \/ GetLatestReceived

SpecData == Init /\ [][DataNext]_vars

(***************************************************************************)
(* Starting and stopping the receiver thread: the inbound session without  *)
(* its consumers. The peer sends at most MaxFrames full frames; a receive   *)
(* on a sound socket after that blocks.                                    *)
(***************************************************************************)
__continuous_data_receiver ==
    RxLoop \/ RxReceiveFrom(MaxFrames, LinkData, AcceptPeers) \/ RxDiscard \/ RxStore

StopNext ==
    \/ SetupOnceIn
    \/ Handshake({"double"}, 0, {<<>>}, DataPeers)
    \/ SwitchOnce
    \/ start_data_recv_thread
    \/ stop_data_recv_thread
    \/ stop_data_recv_join
    \/ __continuous_data_receiver

SpecStop == Init /\ [][StopNext]_vars

\* lines 513 and 515: the receive call returns, with bytes or by raising
RecvCanReturn == rx_pc = "recv" /\ (~RecvSocketOk \/ nrecv < MaxFrames)

\* the receiver thread is scheduled while it can run, and join() returns
\* once the thread has ended; the third conjunct is weak fairness of the
\* receive, whose enabling condition is RecvCanReturn
StopFairness ==
    /\ WF_vars(RxLoop \/ RxDiscard \/ RxStore)
    /\ WF_vars(stop_data_recv_join)
    /\ \/ []<>(~RecvCanReturn)
       \/ []<><<RxReceiveFrom(MaxFrames, LinkData, AcceptPeers)>>_vars

SpecStopFair == SpecStop /\ StopFairness

(***************************************************************************)
(* The codec end to end: a session whose peer sends back, once, the frame  *)
(* send_data put on the wire, intact or with any one bit flipped           *)
(***************************************************************************)
SetupOnceEcho ==
    /\ setup_ret = "NotCalled"
    /\ \E n \in Counts : SetupSocket({"addr1"}, LocalIds, {n}, {n}, {"server", "client"})

\* the peer mirrors the counts and negotiates either format
EchoPeers == {p \in PeerTriples : p.id = 0 /\ p.inputs = p.outputs}

\* values the caller sends: the whole range of '<b', the doubles of the model
CodecInts == {-128, -1, 0, 1, 127}
CodecValsOf(fmt) == IF fmt = int_format THEN CodecInts ELSE DoubleVals

\* one send_data of an array of the negotiated length
SendOnce ==
    /\ hs_ok
    /\ last_sent = None
    /\ \E data \in [1..Val(local_num_outputs) -> CodecValsOf(local_output_datatype)] :
        send_data(data)

\* the eight bits of a byte
Bits == {1, 2, 4, 8, 16, 32, 64, 128}
\* the frame with exactly one bit flipped, at any byte and any bit
OneBitFlips(frame) == {FlipAt(frame, pos, bit) : pos \in 1..Len(frame), bit \in Bits}

\* the receiver gets the frame the peer sends back
RxReceiveEcho ==
    /\ last_sent # None
    /\ nrecv = 0
    /\ RxReceiveFrom(MaxFrames,
                     {Val(last_sent).final_data}
                        \cup OneBitFlips(Val(last_sent).final_data),
                     AcceptPeers)

CodecNext ==
    \/ SetupOnceEcho
    \/ Handshake({"int", "double"}, 0, {<<>>}, EchoPeers)
    \/ SendOnce
    \/ start_data_recv_thread
    \/ RxLoop
    \/ RxReceiveEcho
    \/ RxDiscard
    \/ RxStore
    \/ GetLatestReceivedBy({"c1"})

SpecCodec == Init /\ [][CodecNext]_vars

(***************************************************************************)
(* The record buffer: add_data_to_buffer, the saver thread, start and stop *)
(* Both data_buffer_lock and the condition buffer_not_empty built on it    *)
(* are the one lock data_buffer_lock of the model.                         *)
(***************************************************************************)
\* Thread.is_alive() of the saver; "dead" is a thread ended by an exception
SvAlive == sv_pc \notin {"none", "done", "dead"}

\* mutant: the notification is lost
NotifiedLost(pc) == pc

\* Condition.notify(): wakes the saver if it is in wait()
Notified(pc) == IF pc = "wait" THEN "woken" ELSE pc

\* start_saving_thread, lines 276-283
start_saving_thread ==
    /\ caller_pc = "idle"
    /\ IF saving_thread = "None" \/ ~SvAlive
       THEN /\ saving_running' = Some(TRUE)
            /\ saving_thread' = "thread"
            /\ sv_pc' = "outer"
            /\ packed_data_list' = <<>>
            /\ stop_snap' = None
       ELSE UNCHANGED <<saving_running, saving_thread, sv_pc, packed_data_list,
                        stop_snap>>
    /\ UNCHANGED <<data_buffer_lock, log_file, pr_pc, n_added, lock_dirty>>
    /\ UNCHANGED <<fieldVars, negVars, threadVars, slotVars, bufVars, argVars, pairVars, srcVars,
                   sockVars, hsVars, sendVars, getVars, setup_ret, caller_pc>>

\* stop_saving_thread, line 286: self.saving_running = False
StopSetAt(at, to) ==
    /\ caller_pc = at
    /\ saving_running' = Some(FALSE)
    /\ stop_snap' = Some([waiting |-> sv_pc = "wait", buffer |-> data_buffer,
                          log |-> log_file])
    /\ caller_pc' = to
    /\ UNCHANGED <<saving_thread, data_buffer_lock, sv_pc, packed_data_list, log_file,
                   pr_pc, n_added, lock_dirty>>
    /\ UNCHANGED <<fieldVars, negVars, threadVars, slotVars, bufVars, argVars, pairVars, srcVars,
                   sockVars, hsVars, sendVars, getVars, setup_ret>>

\* line 287: with self.buffer_not_empty
StopAcquireAt(at, to) ==
    /\ caller_pc = at
    /\ data_buffer_lock = "free"
    /\ data_buffer_lock' = "caller"
    /\ caller_pc' = to
    /\ UNCHANGED <<saving_thread, saving_running, sv_pc, packed_data_list, log_file,
                   pr_pc, n_added, stop_snap, lock_dirty>>
    /\ UNCHANGED <<fieldVars, negVars, threadVars, slotVars, bufVars, argVars, pairVars, srcVars,
                   sockVars, hsVars, sendVars, getVars, setup_ret>>

\* lines 288-289: notify, leave the with block, test saving_thread; with no
\* thread the call returns None to the position returned_none
StopNotifyAt(at, joining, returned_none) ==
    /\ caller_pc = at
    /\ sv_pc' = Notified(sv_pc)
    /\ data_buffer_lock' = "free"
    /\ lock_dirty' = FALSE
    /\ caller_pc' = IF saving_thread # "None" THEN joining ELSE returned_none
    /\ UNCHANGED <<saving_thread, saving_running, packed_data_list, log_file,
                   pr_pc, n_added, stop_snap>>
    /\ UNCHANGED <<fieldVars, negVars, threadVars, slotVars, bufVars, argVars, pairVars, srcVars,
                   sockVars, hsVars, sendVars, getVars, setup_ret>>

\* lines 290-292: join() returns once the thread has ended
StopJoinAt(at, returned_true) ==
    /\ caller_pc = at
    /\ ~SvAlive
    /\ saving_thread' = "None"
    /\ caller_pc' = returned_true
    /\ UNCHANGED <<saving_running, data_buffer_lock, sv_pc, packed_data_list, log_file,
                   pr_pc, n_added, stop_snap, lock_dirty>>
    /\ UNCHANGED <<fieldVars, negVars, threadVars, slotVars, bufVars, argVars, pairVars, srcVars,
                   sockVars, hsVars, sendVars, getVars, setup_ret>>

StopSet == StopSetAt("idle", "save_acq")

StopAcquire == StopAcquireAt("save_acq", "save_notify")

StopNotify == StopNotifyAt("save_notify", "save_join", "idle")

StopJoin == StopJoinAt("save_join", "idle")

stop_saving_thread == StopSet \/ StopAcquire \/ StopNotify \/ StopJoin

\* what is left unchanged by a step of a thread inside add_data_to_buffer
PrFrame ==
    /\ UNCHANGED <<saving_thread, saving_running, packed_data_list, log_file, stop_snap>>
    /\ UNCHANGED <<fieldVars, negVars, threadVars, slotVars, argVars, pairVars, srcVars,
                   sockVars, hsVars, sendVars, getVars, setup_ret, caller_pc>>

\* the decoded values handed to add_data_to_buffer
RecordedData == {<<1>>}

\* line 356: with self.data_buffer_lock
PrAcquire(p) ==
    /\ pr_pc[p] = "idle"
    /\ n_added < MaxAdds
    /\ data_buffer_lock = "free"
    /\ data_buffer_lock' = p
    /\ pr_pc' = [pr_pc EXCEPT ![p] = "append"]
    /\ UNCHANGED <<data_buffer, sv_pc, n_added, lock_dirty>>
    /\ PrFrame

\* line 357: self.data_buffer.append(timestamped_data); the entry's seq
\* stands for its place in the order of the appends
PrAppend(p) ==
    /\ pr_pc[p] = "append"
    /\ \E unpacked_data \in RecordedData :
        data_buffer' = Append(data_buffer, [seq |-> n_added + 1, values |-> unpacked_data])
    /\ n_added' = n_added + 1
    /\ lock_dirty' = TRUE
    /\ pr_pc' = [pr_pc EXCEPT ![p] = "test"]
    /\ UNCHANGED <<data_buffer_lock, sv_pc>>
    /\ PrFrame

\* mutant: the notify is issued before the append's lock is released
AfterTestHeld(ready_to_save) == IF ready_to_save THEN "notify" ELSE "idle"

\* lines 358-361: leave the with block; if ready_to_save, enter the one of
\* the condition
AfterTest(ready_to_save) == IF ready_to_save THEN "notify_acq" ELSE "idle"

\* line 358: ready_to_save = len(self.data_buffer) >= self.buffer_size
PrTest(p) ==
    /\ pr_pc[p] = "test"
    /\ LET ready_to_save == Len(data_buffer) >= buffer_size IN
        /\ pr_pc' = [pr_pc EXCEPT ![p] = AfterTest(ready_to_save)]
        /\ IF AfterTest(ready_to_save) = "notify"
           THEN UNCHANGED <<data_buffer_lock, lock_dirty>>
           ELSE data_buffer_lock' = "free" /\ lock_dirty' = FALSE
    /\ UNCHANGED <<data_buffer, sv_pc, n_added>>
    /\ PrFrame

\* line 361: with self.buffer_not_empty
PrNotifyAcquire(p) ==
    /\ pr_pc[p] = "notify_acq"
    /\ data_buffer_lock = "free"
    /\ data_buffer_lock' = p
    /\ pr_pc' = [pr_pc EXCEPT ![p] = "notify"]
    /\ UNCHANGED <<data_buffer, sv_pc, n_added, lock_dirty>>
    /\ PrFrame

\* line 362: self.buffer_not_empty.notify(), and leave the with block
PrNotify(p) ==
    /\ pr_pc[p] = "notify"
    /\ sv_pc' = Notified(sv_pc)
    /\ data_buffer_lock' = "free"
    /\ lock_dirty' = FALSE
    /\ pr_pc' = [pr_pc EXCEPT ![p] = "idle"]
    /\ UNCHANGED <<data_buffer, n_added>>
    /\ PrFrame

add_data_to_buffer(p) ==
    PrAcquire(p) \/ PrAppend(p) \/ PrTest(p) \/ PrNotifyAcquire(p) \/ PrNotify(p)

AddDataToBuffer == \E p \in Producers : add_data_to_buffer(p)

\* what is left unchanged by a step of the saver thread
SvFrame ==
    /\ UNCHANGED <<saving_thread, saving_running, pr_pc, n_added, stop_snap>>
    /\ UNCHANGED <<fieldVars, negVars, threadVars, slotVars, argVars, pairVars, srcVars,
                   sockVars, hsVars, sendVars, getVars, setup_ret, caller_pc>>

\* _run_saving_thread, line 420: while self.saving_running
SvOuter ==
    /\ sv_pc = "outer"
    /\ sv_pc' = IF saving_running = Some(TRUE) THEN "enter" ELSE "done"
    /\ UNCHANGED <<data_buffer, data_buffer_lock, packed_data_list, log_file, lock_dirty>>
    /\ SvFrame

\* line 421: with self.buffer_not_empty
SvEnter ==
    /\ sv_pc = "enter"
    /\ data_buffer_lock = "free"
    /\ data_buffer_lock' = "saver"
    /\ sv_pc' = "inner"
    /\ UNCHANGED <<data_buffer, packed_data_list, log_file, lock_dirty>>
    /\ SvFrame

\* lines 422-423: while len(self.data_buffer) < self.buffer_size and
\* self.saving_running: wait(), which gives the lock up
\* mutant: one entry is enough for a flush
BufferBelowOne(buffer) == Len(buffer) < 1

\* line 422: len(self.data_buffer) < self.buffer_size
BufferBelowSize(buffer) == Len(buffer) < buffer_size

SvInner ==
    /\ sv_pc = "inner"
    /\ IF BufferBelowSize(data_buffer) /\ saving_running = Some(TRUE)
       THEN sv_pc' = "wait" /\ data_buffer_lock' = "free"
       ELSE sv_pc' = "check" /\ UNCHANGED data_buffer_lock
    /\ UNCHANGED <<data_buffer, packed_data_list, log_file, lock_dirty>>
    /\ SvFrame

\* wait() returns: the notified thread takes the lock again
SvWake ==
    /\ sv_pc = "woken"
    /\ data_buffer_lock = "free"
    /\ data_buffer_lock' = "saver"
    /\ sv_pc' = "inner"
    /\ UNCHANGED <<data_buffer, packed_data_list, log_file, lock_dirty>>
    /\ SvFrame

\* mutant: the stop request is not looked at after the wait
SvBreaksNever == FALSE

\* line 424: if not self.saving_running
SvBreaks == saving_running # Some(TRUE)

\* lines 424-428: break, or leave the with block and call __save_buffer
SvCheck ==
    /\ sv_pc = "check"
    /\ sv_pc' = IF SvBreaks THEN "done" ELSE "drain"
    /\ packed_data_list' = <<>>
    /\ data_buffer_lock' = "free"
    /\ UNCHANGED <<data_buffer, log_file, lock_dirty>>
    /\ SvFrame

\* mutant: the packed record is put in front of the list
PackedAfterFront(packed_list, packed_data) == <<packed_data>> \o packed_list

\* line 452: packed_data_list.append(packed_data)
PackedAfter(packed_list, packed_data) == Append(packed_list, packed_data)

\* __save_buffer, lines 439-452: while self.data_buffer: popleft, pack,
\* append to packed_data_list; no lock is taken. The entries are numbers,
\* so the two conversions and the packing do not fail.
SvDrain ==
    /\ sv_pc = "drain"
    /\ IF data_buffer # <<>>
       THEN /\ data_buffer' = Tail(data_buffer)
            /\ packed_data_list' = PackedAfter(packed_data_list, Head(data_buffer))
            /\ UNCHANGED sv_pc
       ELSE /\ sv_pc' = "write"
            /\ UNCHANGED <<data_buffer, packed_data_list>>
    /\ UNCHANGED <<data_buffer_lock, log_file, lock_dirty>>
    /\ SvFrame

\* lines 457-458: open(self.filepath, 'ab') and writelines; back to line 420
SvWrite ==
    /\ sv_pc = "write"
    /\ log_file' = log_file \o packed_data_list
    /\ packed_data_list' = <<>>
    /\ sv_pc' = "outer"
    /\ UNCHANGED <<data_buffer, data_buffer_lock, lock_dirty>>
    /\ SvFrame

\* lines 457-458 raise OSError (no such directory, disk full): nothing
\* catches it in __save_buffer or _run_saving_thread and the thread ends
SvWriteFails ==
    /\ sv_pc = "write"
    /\ packed_data_list' = <<>>
    /\ sv_pc' = "dead"
    /\ UNCHANGED <<data_buffer, data_buffer_lock, log_file, lock_dirty>>
    /\ SvFrame

_run_saving_thread ==
    SvOuter \/ SvEnter \/ SvInner \/ SvWake \/ SvCheck \/ SvDrain \/ SvWrite
        \/ SvWriteFails

SaveNext ==
    \/ start_saving_thread
    \/ stop_saving_thread
    \/ AddDataToBuffer
    \/ _run_saving_thread

SpecSave == Init /\ [][SaveNext]_vars

\* every thread that can take a step eventually takes one; a new call of
\* add_data_to_buffer or of start_saving_thread need not come
SaveFairness ==
    /\ WF_vars(_run_saving_thread)
    /\ WF_vars(StopAcquire \/ StopNotify \/ StopJoin)
    /\ \A p \in Producers :
        WF_vars(PrAppend(p) \/ PrTest(p) \/ PrNotifyAcquire(p) \/ PrNotify(p))

SpecSaveFair == SpecSave /\ SaveFairness

(***************************************************************************)
(* stop_all: a server session that may switch to datagrams, whose caller   *)
(* starts the receiver thread, the saver thread, both or neither, and then *)
(* calls stop_all. Nothing is added to the record buffer, so the saver     *)
(* thread stays in its waiting loop until it is told to stop.              *)
(***************************************************************************)
\* line 295: self.close_socket()
StopAllClose == CloseSocketAt("idle", "all_recv")

\* line 296, left operand of the and: stop_data_recv_thread(). Without a
\* receiver thread it returns None, the and yields None without evaluating
\* its right operand, and stop_all returns.
StopAllRecv == StopRecvSetAt("all_recv", "all_join", "all_return")

\* line 296: the join of stop_data_recv_thread; it returns True and the
\* right operand of the and is evaluated
StopAllRecvJoin == StopRecvJoinAt("all_join", "all_save")

\* line 296, right operand of the and: stop_saving_thread()
StopAllSave ==
    \/ StopSetAt("all_save", "all_save_acq")
    \/ StopAcquireAt("all_save_acq", "all_save_notify")
    \/ StopNotifyAt("all_save_notify", "all_save_join", "all_return")
    \/ StopJoinAt("all_save_join", "all_return")

\* stop_all has returned; the caller goes on
StopAllReturn ==
    /\ caller_pc = "all_return"
    /\ caller_pc' = "idle"
    /\ UNCHANGED <<fieldVars, negVars, threadVars, slotVars, recVars, sockVars, hsVars,
                   sendVars, getVars, setup_ret>>

stop_all == StopAllClose \/ StopAllRecv \/ StopAllRecvJoin \/ StopAllSave \/ StopAllReturn

\* _run_saving_thread, lines 420-425, with an empty record buffer
SaverWaiting == SvOuter \/ SvEnter \/ SvInner \/ SvWake \/ SvCheck

SetupOnceServer ==
    /\ setup_ret = "NotCalled"
    /\ SetupSocket({"addr1"}, {0}, {0}, {0}, {"server"})

StopAllNext ==
    \/ SetupOnceServer
    \/ Handshake({"double"}, 0, {<<>>}, DataPeers)
    \/ SwitchOnce
    \/ start_data_recv_thread
    \/ start_saving_thread
    \/ __continuous_data_receiver
    \/ SaverWaiting
    \/ stop_all

SpecStopAll == Init /\ [][StopAllNext]_vars

(***************************************************************************)
(* The peer address: a session that switches to datagrams, receives from   *)
(* several sources and sends                                               *)
(***************************************************************************)
\* send_data with an array of as many values as the session puts out
SendNegotiated ==
    /\ local_num_outputs # None
    /\ \E data \in [1..Val(local_num_outputs) -> SendVals] : send_data(data)

PeerNext ==
    \/ SetupOnceIn
    \/ Handshake({"double"}, 0, {<<>>}, DataPeers)
    \/ SwitchOnce
    \/ start_data_recv_thread
    \/ RxLoop
    \/ RxReceive(MaxFrames)
    \/ RxDiscard
    \/ RxStore
    \/ SendNegotiated

SpecPeer == Init /\ [][PeerNext]_vars

(***************************************************************************)
(* _prepare_extra_args called with every list of named values up to        *)
(* MaxKwargs long and every length up to one more                          *)
(***************************************************************************)
KwargVals == {69, 7, 0}
KwargLists == UNION {[1..k -> KwargVals] : k \in 0..MaxKwargs}

ArgsNext ==
    \E kwargs \in KwargLists, num_extra_args \in 0..(MaxKwargs + 1) :
        PrepareExtraArgs(kwargs, num_extra_args)

SpecArgs == Init /\ [][ArgsNext]_vars

(***************************************************************************)
(* Two instances of the manager connected to each other, a client and a    *)
(* server, each running handshake() once. The stream carries the 32-bit    *)
(* integers of the handshake; a send() puts its whole message on the       *)
(* stream, a recv() blocks while the stream towards the caller is empty.   *)
(***************************************************************************)
Peer(r) == IF r = "client" THEN "server" ELSE "client"

\* identification numbers the two instances are configured with: a known
\* device, Mevea, and a number outside the table
PairIds == {0, MEVEA, 7}

\* the two instances are set up and connected; lines 131-134 of each
\* handshake() choose the local format
PairConnect ==
    /\ \A r \in Roles : inst[r].pc = "none"
    /\ \E cid \in PairIds, sid \in PairIds,
          cin \in Counts, cout \in Counts, sin \in Counts, sout \in Counts,
          cdt \in {"int", "double"}, sdt \in {"int", "double"},
          n \in 0..MaxExtraArgs, kw \in KwargsOffered :
        inst' = [client |->
                    [Instance("c_send", cid, cin, cout, datatype_encoding(cdt), n, kw)
                        EXCEPT !.local_output_datatype =
                                    LocalFormat(datatype_encoding(cdt))],
                 server |->
                    [Instance("s_recv", sid, sin, sout, datatype_encoding(sdt), n, <<>>)
                        EXCEPT !.local_output_datatype =
                                    LocalFormat(datatype_encoding(sdt))]]
    /\ stream' = [r \in Roles |-> <<>>]
    /\ UNCHANGED <<fieldVars, negVars, threadVars, slotVars, bufVars, saverVars, argVars,
                   srcVars, sockVars, hsVars, sendVars, getVars, setup_ret, caller_pc>>

\* what every step of an instance leaves alone
PairFrame ==
    UNCHANGED <<fieldVars, negVars, threadVars, slotVars, bufVars, saverVars, argVars,
                srcVars, sockVars, hsVars, sendVars, getVars, setup_ret, caller_pc>>

\* socket.send(response): the message is appended to the stream towards the peer
PairSend(r, me, response) ==
    /\ stream' = [stream EXCEPT ![Peer(r)] = @ \o response]
    /\ inst' = [inst EXCEPT ![r] = [me EXCEPT !.sent = @ \o response]]

\* socket.recv(4 * k) on a stream that holds something: the first k integers,
\* fewer when fewer are there
PairTake(r, k) == SubSeq(stream[r], 1, IF Len(stream[r]) < k THEN Len(stream[r]) ELSE k)
PairRest(r, k) == SubSeq(stream[r], Len(PairTake(r, k)) + 1, Len(stream[r]))

\* lines 183-189: the client packs and sends its whole message
PairClientSend ==
    /\ inst["client"].pc = "c_send"
    /\ LET me == inst["client"]
           response == <<me.local_id_number, me.local_num_outputs, me.local_num_inputs,
                         me.local_datatype_code>>
                       \o _prepare_extra_args(me.kwargs, me.num_extra_args)
       IN PairSend("client", [me EXCEPT !.pc = "c_recv"], response)
    /\ PairFrame

\* mutant: the counts are not compared
PairCountsMatchAlways(me, peer_inputs, peer_outputs) == TRUE

\* lines 147-150
PairCountsMatch(me, peer_inputs, peer_outputs) ==
    /\ peer_inputs = me.local_num_outputs
    /\ peer_outputs = me.local_num_inputs

\* lines 141-159, server: recv(12), unpack identity, outputs, inputs; a
\* mismatch returns False; Mevea forces the formats and goes on to send;
\* any other peer is read further. Fewer than 12 bytes make unpack raise.
PairServerRecv ==
    /\ inst["server"].pc = "s_recv"
    /\ stream["server"] # <<>>
    /\ LET me == inst["server"]
           t == PairTake("server", 3)
           got == [me EXCEPT !.got = @ \o t]
       IN /\ stream' = [stream EXCEPT !["server"] = PairRest("server", 3)]
          /\ inst' = [inst EXCEPT !["server"] =
                IF Len(t) < 3
                THEN [got EXCEPT !.pc = "done", !.ret = "Raised"]
                ELSE LET rec == [got EXCEPT !.recvd_id_number = Some(t[1]),
                                            !.recvd_num_outputs = Some(t[2]),
                                            !.recvd_num_inputs = Some(t[3])]
                     IN IF ~PairCountsMatch(me, t[3], t[2])
                        THEN [rec EXCEPT !.pc = "done", !.ret = "False"]
                        ELSE IF id_numbers(t[1]) = "Mevea"
                        THEN [rec EXCEPT
                                !.local_output_datatype = MeveaFormat(me.local_datatype_code),
                                !.connected_output_datatype = MeveaFormat(me.local_datatype_code),
                                !.pc = "s_send"]
                        ELSE [rec EXCEPT !.pc = "recv_dt"]]
    /\ PairFrame

\* lines 190-199, client: recv(12), unpack identity, inputs, outputs; Mevea
\* forces the formats and the call goes to its tail; any other peer is read
\* further
PairClientRecv ==
    /\ inst["client"].pc = "c_recv"
    /\ stream["client"] # <<>>
    /\ LET me == inst["client"]
           t == PairTake("client", 3)
           got == [me EXCEPT !.got = @ \o t]
       IN /\ stream' = [stream EXCEPT !["client"] = PairRest("client", 3)]
          /\ inst' = [inst EXCEPT !["client"] =
                IF Len(t) < 3
                THEN [got EXCEPT !.pc = "done", !.ret = "Raised"]
                ELSE LET rec == [got EXCEPT !.recvd_id_number = Some(t[1]),
                                            !.recvd_num_inputs = Some(t[2]),
                                            !.recvd_num_outputs = Some(t[3])]
                     IN IF id_numbers(t[1]) = "Mevea"
                        THEN [rec EXCEPT
                                !.local_output_datatype = MeveaFormat(me.local_datatype_code),
                                !.connected_output_datatype = MeveaFormat(me.local_datatype_code),
                                !.pc = "tail"]
                        ELSE [rec EXCEPT !.pc = "recv_dt"]]
    /\ PairFrame

\* where an instance goes once the auxiliary integers are in: the server to
\* its send (lines 170-178), the client to the tail of the call
PairAfterArgs(r) == IF r = "server" THEN "s_send" ELSE "tail"

\* mutant: one auxiliary integer more is waited for
ArgsToReceiveOneMore(num_args) == num_args + 1

\* line 531: for _ in range(num_args)
ArgsToReceive(num_args) == num_args

\* lines 161-167 and 201-207: recv(4), the peer's datatype code
PairRecvDatatype(r) ==
    /\ inst[r].pc = "recv_dt"
    /\ stream[r] # <<>>
    /\ LET me == inst[r]
           connected_datatype_code == Head(stream[r])
       IN inst' = [inst EXCEPT ![r] =
                [me EXCEPT !.got = Append(@, connected_datatype_code),
                           !.connected_output_datatype =
                                ConnectedFormat(connected_datatype_code),
                           !.pc = IF ArgsToReceive(me.num_extra_args) > 0
                                  THEN "recv_args" ELSE PairAfterArgs(r)]]
    /\ stream' = [stream EXCEPT ![r] = Tail(@)]
    /\ PairFrame

\* __receive_extra_args, lines 531-534: one recv(4) of the loop
PairRecvArg(r) ==
    /\ inst[r].pc = "recv_args"
    /\ stream[r] # <<>>
    /\ LET me == inst[r]
           arg == Head(stream[r])
       IN inst' = [inst EXCEPT ![r] =
                [me EXCEPT !.got = Append(@, arg),
                           !.recvd_extra_args = Append(@, arg),
                           !.pc = IF Len(me.recvd_extra_args) + 1
                                        < ArgsToReceive(me.num_extra_args)
                                  THEN "recv_args" ELSE PairAfterArgs(r)]]
    /\ stream' = [stream EXCEPT ![r] = Tail(@)]
    /\ PairFrame

\* lines 155-178: the server packs and sends its response: three integers
\* to Mevea, else with its datatype code and auxiliary integers
PairServerSend ==
    /\ inst["server"].pc = "s_send"
    /\ LET me == inst["server"]
           response ==
                IF id_numbers(Val(me.recvd_id_number)) = "Mevea"
                THEN <<me.local_id_number, me.local_num_inputs, me.local_num_outputs>>
                ELSE <<me.local_id_number, me.local_num_inputs, me.local_num_outputs,
                       me.local_datatype_code>>
                     \o _prepare_extra_args(me.kwargs, me.num_extra_args)
       IN PairSend("server", [me EXCEPT !.pc = "tail"], response)
    /\ PairFrame

\* lines 215-228: the frame sizes, and the call returns
PairTail(r) ==
    /\ inst[r].pc = "tail"
    /\ LET me == inst[r] IN
        inst' = [inst EXCEPT ![r] =
            [me EXCEPT !.send_bytes = Some(FrameBytes(me.local_output_datatype,
                                                      me.local_num_outputs)),
                       !.recv_bytes = Some(FrameBytes(me.connected_output_datatype,
                                                      Val(me.recvd_num_outputs))),
                       !.ret = "Ok",
                       !.pc = "done"]]
    /\ UNCHANGED stream
    /\ PairFrame

\* handshake() of the instance in role r
PairHandshake(r) ==
    \/ r = "client" /\ (PairClientSend \/ PairClientRecv)
    \/ r = "server" /\ (PairServerRecv \/ PairServerSend)
    \/ PairRecvDatatype(r)
    \/ PairRecvArg(r)
    \/ PairTail(r)

PairNext ==
    \/ PairConnect
    \/ PairHandshake("client")
    \/ PairHandshake("server")

SpecPair == Init /\ [][PairNext]_vars

\* each of the two processes runs while it can
PairFairness == \A r \in Roles : WF_vars(PairHandshake(r))

SpecPairFair == SpecPair /\ PairFairness

(***************************************************************************)
(* Properties                                                              *)
(***************************************************************************)
\* the call returned the (datatype, extra arguments) pair
ReturnedSuccess(ret) == ret.tag = "Ok"
\* the call returned False
ReturnedFailure(ret) == ret.tag = "False"

\* C1: in server role, on a connected stream, handshake succeeds if and only
\* if the peer's declared input count equals the local output count and the
\* peer's declared output count equals the local input count; whatever else
\* the call is given, it otherwise returns False.  The peer declares
\* (identity, outputs, inputs) in that order.
C1_ServerHandshakeIffMirrored ==
    (hs_call.role = "server" /\ hs_ret.tag # "Raised")
        => /\ Len(hs_read) >= 3
           /\ LET peer_outputs == hs_read[2]
                  peer_inputs == hs_read[3]
                  mirrored == /\ peer_inputs = Val(hs_call.outputs)
                              /\ peer_outputs = Val(hs_call.inputs)
              IN /\ mirrored => ReturnedSuccess(hs_ret)
                 /\ ~mirrored => ReturnedFailure(hs_ret)

\* a server that expects one value per frame and sends none has completed
\* the handshake with a peer declaring one output and no input
C1_Witness ==
    /\ hs_call = [role |-> "server", outputs |-> Some(0), inputs |-> Some(1)]
    /\ ReturnedSuccess(hs_ret)
    /\ hs_read[2] = 1 /\ hs_read[3] = 0

\* C2: in either role, when the counts received from the peer do not mirror
\* the local counts, handshake returns failure and sets no frame size.
C2_MismatchFailsInEitherRole ==
    (/\ hs_call.role \in {"server", "client"}
     /\ Len(hs_read) >= 3
     /\ ~(recvd_num_inputs = hs_call.outputs /\ recvd_num_outputs = hs_call.inputs))
        => /\ ReturnedFailure(hs_ret)
           /\ send_bytes = None
           /\ recv_bytes = None

\* C4: once handshake has returned success, the local counts, both formats
\* and both frame sizes keep their values under every other operation.
C4_NegotiatedFixedAfterSuccess ==
    [][ReturnedSuccess(hs_ret)
        => UNCHANGED <<local_num_inputs, local_num_outputs, local_output_datatype,
                       connected_output_datatype, send_bytes, recv_bytes>>]_vars

\* C5: after a successful handshake with the peer of identity 1 (Mevea), in
\* either role, both formats are the 8-byte float, only the three integers
\* of identity and counts were read from the peer, and no auxiliary
\* arguments are returned.
C5_MeveaForcesDouble ==
    (ReturnedSuccess(hs_ret) /\ recvd_id_number = Some(1))
        => /\ local_output_datatype = "d"
           /\ connected_output_datatype = "d"
           /\ Len(hs_read) = 3
           /\ hs_ret.args = None
           /\ hs_ret.dt = "d"

\* a client that asked for the integer format has completed the handshake
\* with Mevea
C5_Witness ==
    /\ socket_type = "client"
    /\ ReturnedSuccess(hs_ret)
    /\ recvd_id_number = Some(1)
    /\ Len(hs_sent) >= 4 /\ hs_sent[4] = 0

\* width in bytes of one element: 1 for the integer format, 8 for the float
WidthOf(fmt) == IF fmt = "b" THEN 1 ELSE IF fmt = "d" THEN 8 ELSE 0

\* C6: when handshake has returned success, send_bytes is the local output
\* count times the width of the local format plus 1, and recv_bytes is the
\* peer's declared output count times the width of the peer's format plus 1.
C6_FrameSizes ==
    ReturnedSuccess(hs_ret)
        => LET peer_outputs == IF hs_call.role = "server" THEN hs_read[2]
                               ELSE hs_read[3]
           IN /\ send_bytes = Some(Val(hs_call.outputs)
                                   * WidthOf(local_output_datatype) + 1)
              /\ recv_bytes = Some(peer_outputs
                                   * WidthOf(connected_output_datatype) + 1)

\* a handshake has fixed an outbound frame of one integer (2 bytes) and an
\* inbound frame of one float (9 bytes)
C6_Witness ==
    /\ ReturnedSuccess(hs_ret)
    /\ local_output_datatype = "b" /\ connected_output_datatype = "d"
    /\ send_bytes = Some(2) /\ recv_bytes = Some(9)

\* C3: send_data transmits no frame and get_latest_received delivers no
\* frame unless a handshake on this session has returned success.
C3_NoDataBeforeHandshake ==
    (last_sent # None \/ delivered # <<>>) => hs_ok

\* consumer c completes the decode of the frame it read from the slot
GetDecodes(c) == get_pc[c] = "decode" /\ get_pc'[c] = "idle"
\* consumer c leaves the emptiness test of the slot
GetReads(c) == get_pc[c] = "locked" /\ get_pc'[c] # "locked"
\* the frame's last byte differs from the XOR of all bytes before it
BadChecksum(frame) ==
    frame[Len(frame)] # XorFold(SubSeq(frame, 1, Len(frame) - 1), 0)

\* C7: get_latest_received returns no value for a frame whose last byte
\* differs from the XOR of its preceding bytes; whatever it does return was
\* built from a frame whose checksum holds.
C7_BadChecksumNeverReturned ==
    [][\A c \in Consumers :
        GetDecodes(c) =>
            /\ BadChecksum(Val(get_full[c]).data) => get_ret'.vals = None
            /\ get_ret'.vals # None => ~BadChecksum(Val(get_full[c]).data)]_vars

\* a get has examined the damaged frame that is in the slot and returned
\* no value
C7_Witness ==
    \E c \in Consumers :
        /\ latest_recvd # None
        /\ BadChecksum(Val(latest_recvd).data)
        /\ get_ret = [by |-> c, seq |-> Val(latest_recvd).seq, vals |-> None]

\* C8: after the decode attempt that detects a checksum mismatch the frame
\* is no longer held in the latest-value slot.
C8_BadFrameLeavesSlot ==
    [][\A c \in Consumers :
        (GetDecodes(c) /\ BadChecksum(Val(get_full[c]).data))
            => latest_recvd' = None]_vars

\* C9: a get that finds no frame arrived since the last successful get (or
\* since the start) returns no value; a get after exactly one arrival, of a
\* frame the peer built from values v, returns v, and leaves the state in
\* which no frame has arrived since the last successful get.
C9_ReturnedOnceThenNoValue ==
    [][\A c \in Consumers :
        /\ (GetReads(c) /\ arrived_since = 0)
            => (get_pc'[c] = "idle" /\ get_ret'.vals = None)
        /\ (GetDecodes(c) /\ arrived_since = 1)
            => \A v \in [1..Val(recvd_num_outputs) -> ValsOf(connected_output_datatype)] :
                 Val(get_full[c]).data
                    = _add_checksum(StructPack(connected_output_datatype, v))
                 => /\ get_ret'.vals = Some(NumsOf(v))
                    /\ arrived_since' = 0]_vars

\* one frame of one value arrived and a get returned it; the get that
\* followed, by consumer c2, returned no value
C9_Witness ==
    /\ nrecv = 1 /\ arrived_since = 0 /\ latest_recvd = None
    /\ recvd_num_outputs = Some(1)
    /\ delivered = <<1>>
    /\ get_ret = [by |-> "c2", seq |-> 0, vals |-> None]

\* C10: under every interleaving of the receiver thread with the consumer
\* threads, each received frame is returned by at most one get.
C10_AtMostOnce ==
    \A i, j \in DOMAIN delivered : i # j => delivered[i] # delivered[j]

\* two frames were received and each was returned once; the second went to
\* consumer c2, and c1 is inside a get of its own that finds the slot empty
C10_Witness ==
    /\ delivered = <<1, 2>>
    /\ get_ret.by = "c2" /\ get_ret.seq = 2 /\ get_ret.vals # None
    /\ get_pc["c1"] = "locked"

\* arrival number of the frame most recently written into the slot: the
\* frames accepted so far, less the one the receiver still holds
LastPut == nrecv - (IF rx_data # None THEN 1 ELSE 0)

\* C11: every frame a get returns is the frame most recently written into
\* the slot at the time of the call, and arrived later than every frame
\* returned before it: the returned frames are a subsequence of the arrivals.
C11_ReturnedInArrivalOrder ==
    [][\A c \in Consumers :
        (GetDecodes(c) /\ get_ret'.vals # None)
            => /\ Val(get_full[c]).seq = LastPut
               /\ \A i \in DOMAIN delivered : delivered[i] < Val(get_full[c]).seq
               /\ delivered' = Append(delivered, Val(get_full[c]).seq)]_vars

\* two frames arrived before any get: the first was overwritten unread and
\* the get returned the second
C11_Witness ==
    /\ nrecv = 2 /\ rx_data = None
    /\ delivered = <<2>>
    /\ get_ret.seq = 2 /\ get_ret.vals # None

\* C12: the receiver writes into the slot only frames whose checksum holds,
\* so a damaged full-size frame never replaces the frame waiting there.
C12_OnlyValidFramesStored ==
    [][(latest_recvd' # latest_recvd /\ latest_recvd' # None)
        => ~BadChecksum(Val(latest_recvd').data)]_vars

\* the receiver completes the store of the frame it holds
RxStores == rx_pc = "store" /\ rx_pc' = "loop"

\* C13: each frame the receiver accepts with a valid checksum adds exactly
\* one entry holding its decoded values at the tail of data_buffer.
C13_AcceptedFramesRecorded ==
    [][(RxStores /\ ~BadChecksum(Val(rx_data).data))
        => /\ Len(data_buffer') = Len(data_buffer) + 1
           /\ SubSeq(data_buffer', 1, Len(data_buffer)) = data_buffer
           /\ data_buffer'[Len(data_buffer')].values = Decoded(Val(rx_data).data)]_vars

\* the receiver gets bytes of another length than recv_bytes, and drops them
RxRejects == (rx_pc = "recv" /\ rx_pc' = "short") \/ (rx_pc = "short" /\ rx_pc' = "loop")

\* C14: a receive of another byte count than recv_bytes (zero included)
\* changes neither the slot nor what the consumers hold or were given, and
\* every frame on its way to a consumer has exactly recv_bytes bytes.
C14_WrongSizeNeverStored ==
    /\ [][RxRejects => UNCHANGED <<latest_recvd, rx_data, nrecv, arrived_since,
                                   get_full, get_ret, delivered>>]_vars
    /\ [](\A held \in {rx_data, latest_recvd} \cup {get_full[c] : c \in Consumers} :
            held # None => Len(Val(held).data) = Val(recv_bytes))

\* the receiver has just got too few bytes while the first frame, of nine
\* bytes, waits unread in the slot
C14_Witness ==
    /\ rx_pc = "short"
    /\ nrecv = 1 /\ latest_recvd # None /\ delivered = <<>>
    /\ recv_bytes = Some(9)

\* C15: for every array of the negotiated length, in the integer format
\* over the values -128..127 and in the float format, get_latest_received
\* on the frame send_data built from it, with the same format on both
\* sides, returns the values of the array, element for element.
C15_DecodeOfEncode ==
    [][\A c \in Consumers :
        (/\ GetDecodes(c)
         /\ last_sent # None
         /\ Val(get_full[c]).data = Val(last_sent).final_data
         /\ Len(Val(last_sent).data) = Val(local_num_outputs)
         /\ connected_output_datatype = local_output_datatype)
            => \A k \in 1..Len(Val(last_sent).data) :
                /\ Len(Val(get_ret'.vals)) = Len(Val(last_sent).data)
                /\ Val(get_ret'.vals)[k].num = Val(last_sent).data[k]
                /\ Val(get_ret'.vals)[k].bits = <<>>]_vars

\* the array [-128] went out in the integer format and the get on the frame
\* that came back returned [-128]
C15_Witness ==
    /\ last_sent # None
    /\ Val(last_sent).data = <<-128>>
    /\ local_output_datatype = "b" /\ connected_output_datatype = "b"
    /\ delivered = <<1>>
    /\ get_ret.vals # None
    /\ Val(get_ret.vals)[1].num = -128

\* the two byte strings have the same length and differ in one bit
OneBitApart(a, b) ==
    /\ Len(a) = Len(b)
    /\ \E pos \in 1..Len(b), bit \in {1, 2, 4, 8, 16, 32, 64, 128} :
        a = [b EXCEPT ![pos] = ByteXor(b[pos], bit)]

\* C16: get_latest_received returns no value for a frame that differs in
\* exactly one bit, of a payload byte or of the checksum byte, from a frame
\* send_data built.
C16_SingleBitFlipRejected ==
    [][\A c \in Consumers :
        (/\ GetDecodes(c)
         /\ last_sent # None
         /\ OneBitApart(Val(get_full[c]).data, Val(last_sent).final_data))
            => get_ret'.vals = None]_vars

\* a nine-byte frame came back with the top bit of its checksum byte
\* flipped, and the get that examined it returned no value
C16_Witness ==
    /\ last_sent # None
    /\ Len(Val(last_sent).final_data) = 9
    /\ latest_recvd # None
    /\ Val(latest_recvd).data
        = [Val(last_sent).final_data EXCEPT ![9] = ByteXor(Val(last_sent).final_data[9], 128)]
    /\ get_ret = [by |-> "c1", seq |-> 1, vals |-> None]

\* a call of setup_socket that shows: these fields are assigned nowhere else
SetupCalled ==
    <<local_id_number, local_num_inputs, local_num_outputs, setup_ret>>'
        # <<local_id_number, local_num_inputs, local_num_outputs, setup_ret>>

\* C17: setup_socket returns success exactly when it has just created the
\* session's socket and established the stream; with a socket already there,
\* or with a role that is neither 'server' nor 'client', it returns failure.
C17_SetupReportsFailure ==
    [][SetupCalled
        => /\ local_socket # None => setup_ret' = "False"
           /\ setup_ret' = "True"
                => /\ local_socket = None
                   /\ connected_socket' # None
                   /\ Val(connected_socket') \in sock_open'
                   /\ sock_kind'[Val(connected_socket')] = "tcp"]_vars

\* C18: in every reachable state the manager has at most one socket open.
C18_AtMostOneOpenSocket == Cardinality(sock_open) <= 1

\* C18, by role: a server on the stream transport has at most two sockets
\* open, the listening one and the accepted connection; in every other
\* state (client role, no role, and either role after tcp_to_udp) at most one.
C18_OpenSocketsByRole ==
    Cardinality(sock_open)
        <= (IF socket_type = "server" /\ network_protocol = "tcp" THEN 2 ELSE 1)

\* a server has switched to datagrams: its listening socket and the accepted
\* connection are closed and the one datagram socket is open
C18_Witness ==
    /\ socket_type = "server" /\ network_protocol = "udp"
    /\ \E l, t, u \in SockIds :
        /\ sock_kind[l] = "listen" /\ sock_kind[t] = "tcp" /\ sock_kind[u] = "udp"
        /\ sock_open = {u}

\* a call of tcp_to_udp: it alone makes a datagram socket
SwitchStep == \E s \in SockIds : sock_kind[s] = "unused" /\ sock_kind'[s] = "udp"
\* the socket that call made
SwitchSock == CHOOSE s \in SockIds : sock_kind[s] = "unused" /\ sock_kind'[s] = "udp"

\* C19: tcp_to_udp sets the transport flag to datagram and changes none of
\* the local and received counts, the two formats, the element and frame
\* sizes, the role, the latest-value slot and data_buffer.
C19_SwitchKeepsNegotiation ==
    [][SwitchStep
        => /\ network_protocol' = "udp"
           /\ UNCHANGED <<local_id_number, local_num_inputs, local_num_outputs,
                          recvd_id_number, recvd_num_inputs, recvd_num_outputs,
                          local_output_datatype, connected_output_datatype,
                          local_datatype_size, connected_datatype_size,
                          send_bytes, recv_bytes, socket_type,
                          latest_recvd, data_buffer>>]_vars

\* a server that negotiated nine-byte inbound frames runs on datagrams with
\* a received frame in the slot
C19_Witness ==
    /\ socket_type = "server" /\ network_protocol = "udp"
    /\ ReturnedSuccess(hs_ret) /\ recv_bytes = Some(9) /\ send_bytes = Some(1)
    /\ latest_recvd # None

\* C20: tcp_to_udp binds the new datagram socket of a server to the address
\* its listening socket was bound to by setup, leaves a client with the
\* address its stream socket was connected to by setup as the peer address,
\* and leaves no stream socket open.
C20_SwitchKeepsAddresses ==
    [][SwitchStep
        => /\ socket_type = "server"
                => \E l \in SockIds : /\ sock_kind[l] = "listen"
                                      /\ sock_addr'[SwitchSock] = sock_addr[l]
           /\ socket_type = "client"
                => \E t \in SockIds : /\ sock_kind[t] = "tcp"
                                      /\ connected_addr' = sock_addr[t]
           /\ \A s \in sock_open' : sock_kind'[s] \notin {"tcp", "listen"}]_vars

\* a server set up on the second address has switched: its only open socket
\* is the datagram socket, bound to that address
C20_Witness ==
    /\ socket_type = "server" /\ network_protocol = "udp"
    /\ local_addr = "addr2"
    /\ sock_open = {Val(local_socket)}
    /\ sock_kind[Val(local_socket)] = "udp"
    /\ sock_addr[Val(local_socket)] = "addr2"

\* the handshake has completed on a stream connection that is still there
SwitchPrecondition ==
    /\ hs_ok
    /\ network_protocol = "tcp"
    /\ IsOpenKind(connected_socket, "tcp")

\* C21: a call of tcp_to_udp without a stream connection, without a
\* completed handshake, or on the datagram transport, does not set the
\* transport flag to datagram.
C21_SwitchNeedsHandshake ==
    [][(SwitchStep /\ ~SwitchPrecondition) => network_protocol' # "udp"]_vars

\* the receiver takes a datagram from the socket, of whatever length
RxTakesDatagram ==
    /\ rx_pc = "recv" /\ rx_pc' \in {"short", "store"}
    /\ network_protocol = "udp"

\* send_data puts a frame on the wire
Sends == last_sent' # last_sent

\* C22: on the datagram transport a server's connected_addr is, after every
\* datagram the receiver takes, that datagram's source, and send_data then
\* sends to the source of the latest datagram; a client's connected_addr is
\* not changed by a receive.
C22_PeerAddressFollowsSender ==
    [][/\ (RxTakesDatagram /\ socket_type = "server") => connected_addr' = rx_src'
       /\ (RxTakesDatagram /\ socket_type = "client") => connected_addr' = connected_addr
       /\ (/\ Sends
           /\ network_protocol = "udp" /\ socket_type = "server"
           /\ rx_src # "None") => Val(last_sent').to = rx_src]_vars

\* a server accepted peer1 on the stream, then took a datagram from peer2,
\* and its send went to peer2
C22_Witness ==
    /\ socket_type = "server" /\ network_protocol = "udp"
    /\ sock_kind[2] = "tcp"
    /\ rx_src = "peer2"
    /\ last_sent # None
    /\ Val(last_sent).to = "peer2"

\* C28: the vector _prepare_extra_args returns for named values kwargs and
\* length n has n elements; element i is the i-th named value for i up to
\* the smaller of n and the number of named values, and 0 after that.
C28_ExtraArgsLength ==
    prep_call # None
        => LET kwargs == Val(prep_call).kwargs
               n == Val(prep_call).num_extra_args
               ret == Val(prep_call).ret
               m == IF Len(kwargs) < n THEN Len(kwargs) ELSE n
           IN /\ Len(ret) = n
              /\ \A i \in 1..m : ret[i] = kwargs[i]
              /\ \A i \in (m + 1)..n : ret[i] = 0

\* the two named values 7 and 69 with length 4 gave [7, 69, 0, 0]
C28_Witness ==
    /\ prep_call # None
    /\ Val(prep_call).kwargs = <<7, 69>>
    /\ Val(prep_call).num_extra_args = 4
    /\ Val(prep_call).ret = <<7, 69, 0, 0>>

\* three named values with length 2 gave the first two
C28_WitnessTruncated ==
    /\ prep_call # None
    /\ Val(prep_call).kwargs = <<7, 69, 7>>
    /\ Val(prep_call).ret = <<7, 69>>

\* the saver's write of a batch succeeds
FlushStep == sv_pc = "write" /\ sv_pc' = "outer"

C24_LogInAppendOrder ==
    /\ \A i, j \in DOMAIN log_file : i < j => log_file[i].seq < log_file[j].seq
    /\ \A i \in DOMAIN log_file : log_file[i].seq \in 1..n_added

\* all five entries two producers appended are in the log, in order
C24_Witness ==
    /\ Len(log_file) = 5
    /\ \A i \in 1..5 : log_file[i].seq = i
    /\ data_buffer = <<>>

\* stop_saving_thread is between its first line and its return
Stopping == caller_pc \in {"save_acq", "save_notify", "save_join"}

\* C25: once stop_saving_thread has been called, whatever the saver and the
\* producers are doing, the saver thread ends and stop_saving_thread returns.
C25_StopReturns == Stopping ~> (caller_pc = "idle" /\ ~SvAlive)

\* stop was requested while the saver was in wait(), and its notify has
\* woken the saver
C25_Witness ==
    /\ stop_snap # None /\ Val(stop_snap).waiting
    /\ caller_pc = "save_join"
    /\ sv_pc = "woken"

\* a is an initial part of b
IsPrefix(a, b) == Len(a) <= Len(b) /\ SubSeq(b, 1, Len(a)) = a

\* C26: after a stop requested while the saver was waiting, the log is what
\* it was and the entries then queued are still at the head of data_buffer,
\* the saver never reaching its drain; and once stop_saving_thread has
\* returned the log does not change until start_saving_thread runs again.
C26_StopWhileWaitingWritesNothing ==
    /\ []((stop_snap # None /\ Val(stop_snap).waiting)
            => /\ log_file = Val(stop_snap).log
               /\ IsPrefix(Val(stop_snap).buffer, data_buffer)
               /\ sv_pc \notin {"drain", "write"})
    /\ [][(stop_snap # None /\ caller_pc = "idle") => log_file' = log_file]_vars

\* stop was requested while the saver waited with one entry queued; it has
\* returned, the saver has ended, and the entry is still queued while the
\* producers have gone on appending
C26_Witness ==
    /\ stop_snap # None /\ Val(stop_snap).waiting
    /\ Len(Val(stop_snap).buffer) = 1
    /\ caller_pc = "idle" /\ saving_thread = "None" /\ sv_pc = "done"
    /\ Len(data_buffer) > 1
    /\ log_file = <<>>

\* C27: a write of a batch that fails leaves the saver thread running.
C27_WriteFailureKeepsSaver ==
    [][(sv_pc = "write" /\ sv_pc' # "write" /\ log_file' = log_file)
        => sv_pc' \notin {"none", "done", "dead"}]_vars

\* C29: data_buffer is changed only by a thread that holds data_buffer_lock:
\* appended to by the producer holding it, shortened by the saver holding it.
C29_BufferAccessUnderLock ==
    [][data_buffer' # data_buffer
        => \/ Len(data_buffer') > Len(data_buffer) /\ data_buffer_lock \in Producers
           \/ Len(data_buffer') < Len(data_buffer) /\ data_buffer_lock = "saver"]_vars

\* the three ways a notify shows
NotifyByProducer(p) == pr_pc[p] = "notify" /\ pr_pc'[p] = "idle"
NotifyByCaller == caller_pc = "save_notify" /\ caller_pc' # "save_notify"
Woken == sv_pc = "wait" /\ sv_pc' = "woken"

\* C30: every notify is issued by a thread that holds the lock in a section
\* in which it has changed neither the queue nor the running flag; the
\* producer's comes after an append, the caller's after the flag was cleared.
C30_NotifyOutsideMutation ==
    [][(Woken \/ NotifyByCaller \/ \E p \in Producers : NotifyByProducer(p))
        => /\ ~lock_dirty
           /\ UNCHANGED <<data_buffer, saving_running>>
           /\ \/ NotifyByCaller /\ data_buffer_lock = "caller"
                    /\ saving_running = Some(FALSE)
              \/ \E p \in Producers : /\ NotifyByProducer(p)
                                      /\ data_buffer_lock = p
                                      /\ n_added > 0]_vars

\* a producer's notify has woken the running saver with the threshold
\* reached and the lock free again
C30_Witness ==
    /\ sv_pc = "woken"
    /\ saving_running = Some(TRUE)
    /\ Len(data_buffer) >= buffer_size
    /\ data_buffer_lock = "free" /\ ~lock_dirty

\* C31: the saver starts a flush only from line 424, holding the lock, with
\* the running flag set and at least buffer_size entries queued; the drain
\* is entered in no other way, the write follows only a drain, and the log
\* changes only by that write, which adds at least buffer_size records.
C31_FlushOnlyAtThreshold ==
    /\ [][(sv_pc # "drain" /\ sv_pc' = "drain")
            => /\ sv_pc = "check"
               /\ data_buffer_lock = "saver"
               /\ saving_running = Some(TRUE)
               /\ Len(data_buffer) >= buffer_size]_vars
    /\ [][(sv_pc # "write" /\ sv_pc' = "write") => sv_pc = "drain"]_vars
    /\ [][log_file' # log_file
            => /\ sv_pc = "write"
               /\ Len(log_file') >= Len(log_file) + buffer_size]_vars
    /\ [](sv_pc \in {"drain", "write"}
            => Len(packed_data_list) + Len(data_buffer) >= buffer_size)

\* the saver starts its second flush, the queue having filled up to the
\* threshold again after the first
C31_Witness ==
    /\ sv_pc = "drain"
    /\ packed_data_list = <<>>
    /\ Len(data_buffer) = buffer_size
    /\ Len(log_file) >= buffer_size

\* C32: the receiver thread ends only at line 501, on finding the running
\* flag not set. A socket call that raised takes it back to line 501, a short
\* or empty read too, a full-size frame (sound or damaged) is stored and
\* then the loop goes round; at line 501 with the flag set it receives again.
C32_ReceiverSurvivesErrors ==
    [][/\ (rx_pc # "done" /\ rx_pc' = "done")
            => (rx_pc = "loop" /\ data_recv_running # Some(TRUE))
       /\ (rx_pc = "recv" /\ rx_pc' # "recv") => rx_pc' \in {"loop", "short", "store"}
       /\ (rx_pc \in {"short", "store"} /\ rx_pc' # rx_pc) => rx_pc' = "loop"
       /\ (rx_pc = "loop" /\ rx_pc' # "loop" /\ data_recv_running = Some(TRUE))
            => rx_pc' = "recv"]_vars

\* the receiver, having got nothing but a short datagram so far, is in its
\* next receive
C32_Witness ==
    /\ rx_pc = "recv"
    /\ data_recv_running = Some(TRUE)
    /\ rx_src # "None"
    /\ nrecv = 0

\* the receive call that does not return: the socket is sound and the peer
\* sends nothing more
RecvOutstanding == rx_pc = "recv" /\ ~RecvCanReturn

\* C33: once the running flag is cleared the receiver starts no further
\* receive: it finishes the one it is in, if any, and ends at line 501; and
\* a stop_data_recv_thread that is joining returns, with the thread ended,
\* unless that one receive call never returns.
C33_StopEndsReceiver ==
    /\ [][(data_recv_running = Some(FALSE) /\ rx_pc # "recv") => rx_pc' # "recv"]_vars
    /\ [][(data_recv_running = Some(FALSE) /\ rx_pc = "loop" /\ rx_pc' # "loop")
            => rx_pc' = "done"]_vars
    /\ (caller_pc = "joining")
            ~> ((caller_pc = "idle" /\ ~IsAlive) \/ RecvOutstanding)

\* stop_data_recv_thread has returned after the thread, which had received
\* a frame, ended
C33_Witness ==
    /\ data_recv_running = Some(FALSE)
    /\ caller_pc = "idle"
    /\ data_reception_thread = "None"
    /\ rx_pc = "done"
    /\ nrecv >= 1

\* the client's whole message: identity, counts, datatype code and
\* num_extra_args auxiliary integers
ClientMessageComplete(c) ==
    /\ Len(c.sent) = 4 + c.num_extra_args
    /\ SubSeq(c.sent, 1, 4) = <<c.local_id_number, c.local_num_outputs,
                                c.local_num_inputs, c.local_datatype_code>>

\* C34: the server has sent nothing unless it has received the peer's
\* identity and counts and the counts mirror its own (and, from a peer other
\* than Mevea, the datatype code and all auxiliary integers as well); a
\* server that returned False has sent nothing; the client has received
\* nothing unless it has sent its whole message.
C34_HandshakeOrdering ==
    LET srv == inst["server"]
        cli == inst["client"]
    IN /\ srv.sent # <<>>
            => /\ Len(srv.got) >= 3
               /\ srv.recvd_num_inputs = Some(srv.local_num_outputs)
               /\ srv.recvd_num_outputs = Some(srv.local_num_inputs)
               /\ id_numbers(Val(srv.recvd_id_number)) # "Mevea"
                    => Len(srv.got) = 4 + srv.num_extra_args
       /\ srv.ret = "False" => srv.sent = <<>>
       /\ cli.got # <<>> => ClientMessageComplete(cli)

\* the server has read the client's identity and counts, found them not
\* to mirror its own and returned False, having sent nothing; the client,
\* its whole message sent, waits
C34_Witness ==
    /\ inst["server"].ret = "False"
    /\ Len(inst["server"].got) = 3
    /\ inst["server"].sent = <<>>
    /\ inst["client"].pc = "c_recv"
    /\ inst["client"].num_extra_args = 1
    /\ ClientMessageComplete(inst["client"])

\* both ends have answered each other: the server sent after it had read
\* everything, the client read after it had sent
C34_WitnessAnswered ==
    /\ inst["server"].ret = "Ok" /\ inst["client"].ret = "Ok"
    /\ Len(inst["server"].sent) = 5 /\ Len(inst["client"].got) = 5

\* the two instances are connected, with mirrored counts (and, as always in
\* this model, the same num_extra_args)
PairMirrored ==
    /\ inst["client"].pc # "none"
    /\ inst["server"].local_num_inputs = inst["client"].local_num_outputs
    /\ inst["server"].local_num_outputs = inst["client"].local_num_inputs

\* both handshake() calls returned the (datatype, extra arguments) pair
BothSucceeded == \A r \in Roles : inst[r].ret = "Ok"

\* both calls have returned success and every integer sent has been read
PairSettled == BothSucceeded /\ \A r \in Roles : stream[r] = <<>>

\* is Mevea the identification number of the instance in role r
IsMevea(r) == id_numbers(inst[r].local_id_number) = "Mevea"

\* C35 as stated: a client and a server with mirrored counts, whatever their
\* identification numbers and requested encodings, both come to return
\* success, with nothing left unread on either stream.
C35_PairCompletes == PairMirrored ~> PairSettled

\* C35 amended: so it is when neither identification number is Mevea's.
C35_PairCompletesWithoutMevea ==
    (PairMirrored /\ ~IsMevea("client") /\ ~IsMevea("server")) ~> PairSettled

\* two instances with different non-Mevea numbers, one auxiliary integer
\* and different encodings have both returned success, the streams empty
C35_Witness ==
    /\ PairSettled
    /\ inst["client"].local_id_number = 0 /\ inst["server"].local_id_number = 7
    /\ inst["client"].num_extra_args = 1
    /\ inst["client"].local_datatype_code # inst["server"].local_datatype_code
    /\ Len(inst["client"].got) = 5 /\ Len(inst["server"].got) = 5

\* each end's outbound format and frame size are the other's inbound ones
WireAgreement ==
    LET srv == inst["server"]
        cli == inst["client"]
    IN /\ cli.local_output_datatype = srv.connected_output_datatype
       /\ cli.send_bytes = srv.recv_bytes
       /\ srv.local_output_datatype = cli.connected_output_datatype
       /\ srv.send_bytes = cli.recv_bytes

\* C36 as stated: a client and a server that have both returned success
\* agree on the wire format, whatever their identification numbers and
\* requested encodings.
C36_PairAgrees == BothSucceeded => WireAgreement

\* C36 amended: they agree unless the server's identification number is
\* Mevea's and the client's is not.
C36_PairAgreesUnlessServerMevea ==
    (BothSucceeded /\ (IsMevea("server") => IsMevea("client"))) => WireAgreement

\* a client sending one integer per frame and a server sending one double
\* per frame have both returned success: 2 bytes one way, 9 the other
C36_Witness ==
    /\ BothSucceeded
    /\ ~IsMevea("client") /\ ~IsMevea("server")
    /\ inst["client"].local_output_datatype = int_format
    /\ inst["server"].local_output_datatype = double_format
    /\ inst["client"].send_bytes = Some(2) /\ inst["server"].recv_bytes = Some(2)
    /\ inst["server"].send_bytes = Some(9) /\ inst["client"].recv_bytes = Some(9)

\* C37: every frame send_data transmits on a session whose handshake has
\* succeeded is send_bytes long.
C37_SentFramesHaveSendBytes ==
    [][(hs_ok /\ last_sent' # last_sent)
        => Len(Val(last_sent').final_data) = Val(send_bytes)]_vars

\* C38: once stop_all has returned, neither the receiver thread nor the
\* saver thread is running, whichever of the two had been started.
C38_StopAllStopsBoth ==
    caller_pc = "all_return" => (~IsAlive /\ ~SvAlive)

\* C39: under every interleaving of the receiver thread with
\* get_latest_received, a frame leaves the latest-value slot only by being
\* overwritten by a later arrival or by being returned, decoded, by the get
\* that erases it: a get never erases a frame it does not return.
C39_GetErasesOnlyWhatItReturns ==
    [][(latest_recvd # None /\ latest_recvd' # latest_recvd /\ ~RxStores)
        => \E c \in Consumers :
            /\ GetDecodes(c)
            /\ get_full[c] = latest_recvd
            /\ get_ret' = [by |-> c, seq |-> Val(latest_recvd).seq,
                            vals |-> Some(Decoded(Val(latest_recvd).data))]]_vars

\* a frame arrived while a get was in progress: the receiver thread holds
\* it and waits for the lock, which the get holds while it decodes an
\* earlier frame that it is going to return
C39_Witness ==
    \E c \in Consumers :
        /\ get_pc[c] = "decode"
        /\ latest_data_lock = c
        /\ GetAccepts(Val(get_full[c]).data)
        /\ rx_pc = "store"
        /\ rx_data # None
        /\ Val(rx_data).seq > Val(get_full[c]).seq

====
